---- MODULE Spec2Model ----
(***************************************************************************)
(* Model of the LogAnalyzer concurrent analysis pipeline:                  *)
(*   - models.Statistics            (src/internal/models/stats.go)         *)
(*   - analyzer.Aggregator          (src/unnamed/part_002)                 *)
(*   - analyzer.Analyzer            (src/unnamed/part_000, package analyzer)*)
(*   - handleAnalyze / handleStats  (src/unnamed/part_000, package main)   *)
(*   - parser, filter               (src/internal/parser, part_001, part_003)*)
(*   - watcher.Watcher              (src/internal/watcher/watcher.go)      *)
(*                                                                         *)
(* Specifications:                                                         *)
(*   SpecAgg     concurrent callers of Aggregator.Add / Aggregator.AddBatch*)
(*   SpecDir     one analyze/stats run over a directory (worker pool)      *)
(*   SpecDirFair SpecDir with the Go scheduler's fairness                  *)
(*   SpecFilter  the filter functions applied to sample records            *)
(*   SpecStamp   SpecAgg with a record dated at the zero time              *)
(*   SpecOps     a writer and a reader of the Aggregator (sort, copy, clear)*)
(*   SpecWatch   Watcher.Watch on a file other processes write to          *)
(*   SpecLoop    the select loop of Watch with every trigger it has        *)
(*   SpecAccept  the watcher's accept decision next to CombineFilters      *)
(*   SpecParse   PlainTextLogParser on the characters of a line            *)
(*   SpecLoopFair SpecLoop with the fairness of the goroutine and of select *)
(*   SpecFrag    Watch on a file whose lines may arrive in two writes      *)
(*   SpecRotate  Watch on a file truncated between two reads               *)
(*   SpecStats   Watcher.WatchWithStats and its statistics goroutine       *)
(*   SpecStatsFair SpecStats with fair scheduling of both goroutines       *)
(*   SpecLevel   the level of a JSON line against the minimum-level tests  *)
(***************************************************************************)
EXTENDS Integers, Sequences, FiniteSets, TLC

\* ------------------------------------------------------------------ bounds
\* number of concurrent callers of the aggregator in SpecAgg
NumCallers == 2
\* longest batch a caller of SpecAgg passes to AddBatch
MaxBatch == 2
\* largest explicit --workers value of SpecDir (0 selects the default)
MaxWorkers == 2
\* the code flushes the local buffer at 1000 records (part_000:434);
\* the model scales that threshold down so that a flush in mid-file happens
BatchSize == 2

\* most records the writer of SpecOps puts into the aggregator between two
\* calls of Clear
MaxEntries == 3

\* most lines ever written to the watched file of SpecWatch, and most lines
\* it holds when the watch starts
MaxLines == 2
MaxInitial == 1

\* WatchWithStats: the entry channel has 100 slots (watcher.go:196); the model
\* scales that down, and the file holds up to MaxStatLines lines, enough to
\* fill the channel and have one more entry to hand over
EntryChanCap == 2
MaxStatLines == 3

\* ------------------------------------------------------- program constants
\* models.LogLevel (log.go:11-18)
DEBUG == 0
INFO == 1
WARN == 2
ERROR == 3
FATAL == 4
UNKNOWN == 5
\* numWorkers when config.Workers <= 0 (part_000:472)
DefaultWorkers == 4

Levels == DEBUG..UNKNOWN

Max(a, b) == IF a >= b THEN a ELSE b

\* the goroutines that call into the aggregator: the workers (SpecDir) or the
\* concurrent callers (SpecAgg)
Threads == 1..Max(NumCallers, Max(MaxWorkers, DefaultWorkers))

\* ------------------------------------------------------------- file system
\* The directory tree the run is pointed at.  A file is a sequence of lines.
\* A line carries its text (raw, a sequence of characters) and what the text
\* decodes to: "blank" (the empty line), "spaces" (white space only),
\* "malformed" ('{' ... '}' that json.Unmarshal rejects), "toolong" (longer
\* than the scanner's 1 MiB maximum), "entry" (a structured line) or "text"
\* (a free-text line); the last two carry a timestamp (minutes after some
\* epoch, > 0), a level and a message.  openFails marks a file that os.Open
\* rejects.
LogEntry(ts, level, message, source, raw) ==
  [ts |-> ts, level |-> level, message |-> message, source |-> source, raw |-> raw]

Rec(ts, level, source) == LogEntry(ts, level, << >>, source, << >>)

\* LogLevel.String, abbreviated to one character
LevelText(level) ==
  CASE level = DEBUG -> "D"
    [] level = INFO -> "I"
    [] level = WARN -> "W"
    [] level = ERROR -> "E"
    [] level = FATAL -> "F"
    [] OTHER -> "U"

Blank == [kind |-> "blank", raw |-> << >>]
Spaces == [kind |-> "spaces", raw |-> << " " >>]
Malformed == [kind |-> "malformed", raw |-> << "{", "x", "}" >>]
TooLong == [kind |-> "toolong", raw |-> << >>]
Line(ts, level, message) ==
  [kind |-> "entry", ts |-> ts, level |-> level, message |-> message,
   raw |-> << "{", LevelText(level) >> \o message \o << "}" >>]
Text(ts, level, message) ==
  [kind |-> "text", ts |-> ts, level |-> level, message |-> message,
   raw |-> << LevelText(level), " " >> \o message]

FileNames == {"a.log", "b.log", "c.log", "d.log"}
Sources == FileNames \cup { "w.log" }

FileLines(f) ==
  CASE f = "a.log" -> << Line(2, ERROR, << "o", "k" >>), Malformed,
                         Line(1, INFO, << "k", "o" >>), Line(2, INFO, << "o" >>) >>
    [] f = "b.log" -> << >>
    [] f = "c.log" -> << Line(1, ERROR, << "k" >>), Blank, Spaces >>
    [] f = "d.log" -> << Text(3, WARN, << "o", "k" >>), TooLong, Line(1, FATAL, << "o" >>) >>

\* os.Open (or file.Stat) returns an error for this file
OpenFails(f) == f = "b.log"

\* size in bytes reported by file.Stat (one unit per line here)
FileSize(f) == Len(FileLines(f))

\* the directories a run may be pointed at: the .log files filepath.Walk
\* yields, in lexical order
Directories ==
  { << >>, << "a.log" >>, << "b.log" >>, << "a.log", "c.log" >>,
    << "b.log", "c.log" >>, << "c.log", "d.log" >>, << "b.log", "d.log" >>,
    << "b.log", "c.log", "d.log" >> }

\* the directories analysed with the default pool of DefaultWorkers workers
DefaultPoolDirectories ==
  { << >>, << "a.log" >>, << "b.log" >>, << "b.log", "c.log" >> }

\* records the callers of SpecAgg hand to the aggregator
RecordSet ==
  { Rec(2, INFO, "a.log"), Rec(1, ERROR, "b.log") }

RECURSIVE SeqsUpTo(_, _)
SeqsUpTo(S, n) ==
  IF n = 0 THEN { << >> }
  ELSE LET shorter == SeqsUpTo(S, n - 1)
       IN shorter \cup { Append(s, x) : s \in { q \in shorter : Len(q) = n - 1 }, x \in S }

\* ------------------------------------------------------------------- state
VARIABLES
  entries,   \* Aggregator.entries
  a_mu,      \* Aggregator.mu: the set of threads holding it ({} = unlocked)
  stats,     \* *Aggregator.stats (models.Statistics)
  s_mu,      \* Statistics.mu: the set of threads holding it
  frame,     \* per thread: the activation of Add/AddBatch it is in
  run,       \* the command line of the run: command, config, directory
  main,      \* the goroutine in AnalyzeDirectory and its caller (the handler)
  fileChan,  \* chan string of AnalyzeDirectory
  errChan,   \* chan error of AnalyzeDirectory
  wg,        \* sync.WaitGroup counter of AnalyzeDirectory
  worker,    \* per worker goroutine: position and locals of AnalyzeFile
  audit,     \* history: per file, AnalyzeFile calls started and their result
  calc,      \* a filter applied to a set of records: arguments and results
  wfile,     \* the watched file: its bytes
  watch,     \* the Watcher and the goroutine in Watcher.Watch
  sink       \* what displayEntry has printed

aggVars == << entries, a_mu, stats, s_mu, frame >>
dirVars == << run, main, fileChan, errChan, wg, worker, audit >>
restVars == << calc, wfile, watch, sink >>
vars == << aggVars, dirVars, restVars >>

\* models.NewStatistics
NewStatistics ==
  [ TotalEntries |-> 0,
    LevelCounts |-> [l \in Levels |-> 0],
    SourceCounts |-> [s \in Sources |-> 0],
    FirstTimestamp |-> 0,
    LastTimestamp |-> 0,
    ProcessingTime |-> 0,
    FilesProcessed |-> 0,
    BytesProcessed |-> 0 ]

\* a slice value the aggregator hands out: its elements, and whether it
\* shares its backing array with a.entries
NoResult == [items |-> << >>, shared |-> FALSE]

NoFrame ==
  [pc |-> "none", op |-> "none", batch |-> << >>, i |-> 0, snap |-> << >>,
   result |-> NoResult]

\* NewAggregator
InitAggregator ==
  /\ entries = << >>
  /\ a_mu = {}
  /\ stats = NewStatistics
  /\ s_mu = {}
  /\ frame = [t \in Threads |-> NoFrame]

\* ------------------------------------------------------------- Statistics
\* variant of the definition below that forgets the per-level count
AddEntryDropsLevel(s, e) ==
  [s EXCEPT !.TotalEntries = @ + 1,
            !.SourceCounts[e.source] = @ + 1]

\* the body of Statistics.AddEntry between Lock and Unlock
AddEntry(s, e) ==
  LET counted == [s EXCEPT !.TotalEntries = @ + 1,
                           !.LevelCounts[e.level] = @ + 1,
                           !.SourceCounts[e.source] = @ + 1]
      first == IF counted.FirstTimestamp = 0 \/ e.ts < counted.FirstTimestamp
               THEN e.ts ELSE counted.FirstTimestamp
      last == IF e.ts > counted.LastTimestamp THEN e.ts ELSE counted.LastTimestamp
  IN [counted EXCEPT !.FirstTimestamp = first, !.LastTimestamp = last]

\* sync.Mutex.Lock on Statistics.mu can proceed
StatsMuFree == s_mu = {}

\* variant of the definition below: the mutex stays locked
StatsUnlockForgotten(held, t) == held

\* the deferred s.mu.Unlock() of a Statistics method
StatsUnlock(held, t) == held \ {t}

\* ------------------------------------------------------------- Aggregator
\* variant of the definition below: Add / AddBatch without the mutex
AggMuUnguarded == TRUE

\* sync.Mutex.Lock on Aggregator.mu can proceed
AggMuFree == a_mu = {}

\* a.mu.Lock() of Add / AddBatch
ALock(t) ==
  /\ frame[t].pc = "lock"
  /\ AggMuFree
  /\ a_mu' = a_mu \cup {t}
  /\ frame' = [frame EXCEPT ![t].pc = IF Len(frame[t].batch) = 0 THEN "unlock" ELSE "load",
                            ![t].i = 1]
  /\ UNCHANGED << entries, stats, s_mu >>

\* a.entries = append(a.entries, entry): read of the slice ...
AppendLoad(t) ==
  /\ frame[t].pc = "load"
  /\ frame' = [frame EXCEPT ![t].pc = "store", ![t].snap = entries]
  /\ UNCHANGED << entries, a_mu, stats, s_mu >>

\* ... and write of the extended slice
AppendStore(t) ==
  /\ frame[t].pc = "store"
  /\ entries' = Append(frame[t].snap, frame[t].batch[frame[t].i])
  /\ frame' = [frame EXCEPT ![t].pc = "slock", ![t].snap = << >>]
  /\ UNCHANGED << a_mu, stats, s_mu >>

\* a.stats.AddEntry(entry): s.mu.Lock()
StatsLock(t) ==
  /\ frame[t].pc = "slock"
  /\ StatsMuFree
  /\ s_mu' = s_mu \cup {t}
  /\ frame' = [frame EXCEPT ![t].pc = "supd"]
  /\ UNCHANGED << entries, a_mu, stats >>

\* a.stats.AddEntry(entry): the update and the deferred s.mu.Unlock(); then
\* the next iteration of the range loop, or the end of the loop
StatsAddEntry(t) ==
  /\ frame[t].pc = "supd"
  /\ stats' = AddEntry(stats, frame[t].batch[frame[t].i])
  /\ s_mu' = StatsUnlock(s_mu, t)
  /\ frame' = [frame EXCEPT ![t].pc = IF frame[t].i < Len(frame[t].batch) THEN "load" ELSE "unlock",
                            ![t].i = @ + 1]
  /\ UNCHANGED << entries, a_mu >>

\* the deferred a.mu.Unlock() and the return to the caller
AUnlock(t) ==
  /\ frame[t].pc = "unlock"
  /\ a_mu' = a_mu \ {t}
  /\ frame' = [frame EXCEPT ![t].pc = "ret"]
  /\ UNCHANGED << entries, stats, s_mu >>

\* the steps inside Add / AddBatch, shared by every specification
AggStep(t) ==
  \/ ALock(t)
  \/ AppendLoad(t)
  \/ AppendStore(t)
  \/ StatsLock(t)
  \/ StatsAddEntry(t)
  \/ AUnlock(t)

\* Aggregator.SortByTime: sort.Slice by Timestamp.Before.  sort.Slice is not
\* stable, so records with equal timestamps may end in any order: the result
\* is one of the orderings of the records that is non-decreasing in ts.
InsertSorted(x, r) ==
  { SubSeq(r, 1, k) \o << x >> \o SubSeq(r, k + 1, Len(r)) :
      k \in { j \in 0..Len(r) :
                /\ \A a \in 1..j : r[a].ts <= x.ts
                /\ \A b \in (j + 1)..Len(r) : x.ts <= r[b].ts } }

RECURSIVE SortedPerms(_)
SortedPerms(s) ==
  IF s = << >> THEN { << >> }
  ELSE UNION { InsertSorted(Head(s), r) : r \in SortedPerms(Tail(s)) }

\* variant of the definition below: the comparison is After instead of Before
SortByTimeDescending(s) ==
  { [i \in 1..Len(r) |-> r[Len(r) + 1 - i]] : r \in SortedPerms(s) }

\* variant of the definition below: the sort is left out
SortByTimeSkipped(s) == { s }

\* what SortByTime may leave in a.entries
SortByTimeResult(s) == SortedPerms(s)

\* variant of the definition below: the size is not added
AddFileCountOnly(s, bytesRead) ==
  [s EXCEPT !.FilesProcessed = @ + 1]

\* Statistics.AddFile between Lock and Unlock
AddFile(s, bytesRead) ==
  [s EXCEPT !.FilesProcessed = @ + 1, !.BytesProcessed = @ + bytesRead]

\* ------------------------------------------------ Analyzer: configuration
\* what handleAnalyze / handleStats build: --workers, the minimum level
\* (DEBUG, the zero value, when --level is absent) and --pattern; a caller of
\* the package ("library") may also set the time window and then treats the
\* result as handleAnalyze does
ElapsedTimes == {1, 2}

Dir(exists, fs) == [exists |-> exists, files |-> fs]
Config(workers, inv) ==
  [Workers |-> workers, Level |-> inv.level, Pattern |-> inv.pattern,
   StartTime |-> inv.start, EndTime |-> inv.end]

Invocation(command, level, pattern, start, end) ==
  [command |-> command, level |-> level, pattern |-> pattern, start |-> start, end |-> end]

\* handleStats leaves Level at its zero value; --workers 0 selects the default
Invocations ==
  { Invocation("stats", DEBUG, << >>, 0, 0),
    Invocation("analyze", DEBUG, << >>, 0, 0),
    Invocation("analyze", ERROR, << >>, 0, 0),
    Invocation("analyze", DEBUG, << "o", "k" >>, 0, 0),
    Invocation("analyze", DEBUG, << "k" >>, 0, 0),
    Invocation("library", INFO, << "E" >>, 2, 2) }

RunConfigs ==
  { [command |-> c.command, config |-> Config(n, c), dir |-> d] :
      c \in Invocations, n \in 1..MaxWorkers,
      d \in { Dir(TRUE, fs) : fs \in Directories } \cup { Dir(FALSE, << >>) } }
  \cup
  { [command |-> c.command, config |-> Config(0, c), dir |-> Dir(TRUE, fs)] :
      c \in Invocations, fs \in DefaultPoolDirectories }

Workers == 1..Max(MaxWorkers, DefaultWorkers)

NoError == [kind |-> "nil", count |-> 0]
Error(kind, n) == [kind |-> kind, count |-> n]

IdleWorker ==
  [pc |-> "unborn", file |-> "", line |-> 0, buf |-> << >>, scanErr |-> FALSE,
   failed |-> FALSE]

InitDirVars(r, pc) ==
  /\ run = r
  /\ main = [pc |-> pc, hpc |-> "analyzing", files |-> << >>, numWorkers |-> 0,
             i |-> 0, errors |-> << >>, ret |-> Error("none", 0), report |-> << >>]
  /\ fileChan = [buf |-> << >>, cap |-> 0, closed |-> FALSE]
  /\ errChan = [buf |-> << >>, cap |-> 0, closed |-> FALSE]
  /\ wg = 0
  /\ worker = [w \in Workers |-> IdleWorker]
  /\ audit = [runs |-> [f \in FileNames |-> 0], outcome |-> [f \in FileNames |-> "none"]]

\* ---------------------------------------------------------------- parsers
\* strings.TrimSpace
RECURSIVE TrimLeft(_)
TrimLeft(s) == IF s /= << >> /\ Head(s) = " " THEN TrimLeft(Tail(s)) ELSE s

RECURSIVE TrimRight(_)
TrimRight(s) ==
  IF s /= << >> /\ s[Len(s)] = " " THEN TrimRight(SubSeq(s, 1, Len(s) - 1)) ELSE s

TrimSpace(s) == TrimRight(TrimLeft(s))

\* JSONLogParser.CanParse
JSONCanParse(l) ==
  LET t == TrimSpace(l.raw) IN t /= << >> /\ Head(t) = "{" /\ t[Len(t)] = "}"

\* variant of the definition below: every line goes to the free-text parser
DetectParserPlainOnly(l) == "PlainText"

\* parser.DetectParser
DetectParser(l) == IF JSONCanParse(l) THEN "JSON" ELSE "PlainText"

\* a timestamp taken from time.Now(): later than every timestamp in the logs
Now == 9

ParseError(e) == [err |-> e]
Parsed(entry) == [err |-> "nil", entry |-> entry]

\* JSONLogParser.Parse: json.Unmarshal accepts the structured lines only
JSONParse(l, source) ==
  IF TrimSpace(l.raw) = << >> THEN ParseError("ErrEmptyLine")
  ELSE IF l.kind /= "entry" THEN ParseError("ErrInvalidFormat")
  ELSE Parsed(LogEntry(l.ts, l.level, l.message, source, l.raw))

\* PlainTextLogParser.Parse: never fails on a non-blank line; without a
\* timestamp and a level word the record gets time.Now() and INFO
PlainParse(l, source) ==
  IF TrimSpace(l.raw) = << >> THEN ParseError("ErrEmptyLine")
  ELSE IF l.kind = "text" THEN Parsed(LogEntry(l.ts, l.level, l.message, source, l.raw))
  ELSE Parsed(LogEntry(Now, INFO, TrimSpace(l.raw), source, l.raw))

\* parser.DetectParser(line).Parse(line, source)
Parse(l, source) ==
  IF DetectParser(l) = "JSON" THEN JSONParse(l, source) ELSE PlainParse(l, source)

\* AnalyzeFile keeps a line for the filter: it is not "" and Parse returns
\* no error; ParseLine is the record Parse returns then
CanParseLine(l) == l.raw /= << >> /\ Parse(l, "").err = "nil"
ParseLine(l, source) == Parse(l, source).entry

\* LogEntry.MatchesPattern with contains / findSubstring
findSubstring(s, substr) ==
  \E i \in 0..(Len(s) - Len(substr)) : SubSeq(s, i + 1, i + Len(substr)) = substr

contains(s, substr) ==
  Len(s) >= Len(substr) /\ (s = substr \/ findSubstring(s, substr))

MatchesPattern(e, pattern) ==
  IF pattern = << >> THEN TRUE
  ELSE contains(e.message, pattern) \/ contains(e.raw, pattern)

\* variant of the definition below: the pattern filter is left out
shouldIncludeIgnoresPattern(cfg, e) ==
  /\ ~(cfg.Level /= UNKNOWN /\ e.level < cfg.Level)
  /\ ~(cfg.StartTime /= 0 /\ e.ts < cfg.StartTime)
  /\ ~(cfg.EndTime /= 0 /\ e.ts > cfg.EndTime)

\* Analyzer.shouldInclude: level filter, pattern filter, time window
shouldInclude(cfg, e) ==
  /\ ~(cfg.Level /= UNKNOWN /\ e.level < cfg.Level)
  /\ ~(cfg.Pattern /= << >> /\ ~MatchesPattern(e, cfg.Pattern))
  /\ ~(cfg.StartTime /= 0 /\ e.ts < cfg.StartTime)
  /\ ~(cfg.EndTime /= 0 /\ e.ts > cfg.EndTime)

\* ------------------------------------------- Analyzer.AnalyzeDirectory
\* variant of the definition below without the len(files) == 0 check
FindLogFilesNoEmptyCheck ==
  /\ main.pc = "start"
  /\ main' = IF ~run.dir.exists
               THEN [main EXCEPT !.pc = "returned", !.ret = Error("find", 0)]
             ELSE [main EXCEPT !.pc = "fill", !.files = run.dir.files]
  /\ UNCHANGED << aggVars, restVars, run, fileChan, errChan, wg, worker, audit >>

\* findLogFiles and the two early returns
FindLogFiles ==
  /\ main.pc = "start"
  /\ main' = IF ~run.dir.exists
               THEN [main EXCEPT !.pc = "returned", !.ret = Error("find", 0)]
             ELSE IF Len(run.dir.files) = 0
               THEN [main EXCEPT !.pc = "returned", !.ret = Error("nofiles", 0)]
             ELSE [main EXCEPT !.pc = "fill", !.files = run.dir.files]
  /\ UNCHANGED << aggVars, restVars, run, fileChan, errChan, wg, worker, audit >>

\* variant of the definition below: make(chan error) without a buffer
ErrChanUnbuffered(fs) == 0

\* capacity of errChan
ErrChanCap(fs) == Len(fs)

\* variant of the definition below: the send loop starts one element late
QueueSkipsFirst(fs) == Tail(fs)

\* what is sent into fileChan before it is closed
QueueContents(fs) == fs

\* numWorkers, make(chan ...), the send loop and close(fileChan)
FillQueue ==
  /\ main.pc = "fill"
  /\ main' = [main EXCEPT !.pc = "spawn", !.i = 0,
                          !.numWorkers = IF run.config.Workers <= 0 THEN DefaultWorkers
                                         ELSE run.config.Workers]
  /\ fileChan' = [buf |-> QueueContents(main.files), cap |-> Len(main.files), closed |-> TRUE]
  /\ errChan' = [buf |-> << >>, cap |-> ErrChanCap(main.files), closed |-> FALSE]
  /\ UNCHANGED << aggVars, restVars, run, wg, worker, audit >>

\* one iteration of the start loop: wg.Add(1); go func(workerID) {...}(i)
Spawn ==
  /\ main.pc = "spawn"
  /\ main.i < main.numWorkers
  /\ wg' = wg + 1
  /\ worker' = [worker EXCEPT ![main.i + 1].pc = "recv"]
  /\ main' = [main EXCEPT !.i = @ + 1,
                          !.pc = IF main.i + 1 < main.numWorkers THEN "spawn" ELSE "wait"]
  /\ UNCHANGED << aggVars, restVars, run, fileChan, errChan, audit >>

\* variant of the definition below: no wg.Wait(
WaitSkipped == TRUE

\* wg.Wait() can return
WaitDone == wg = 0

\* wg.Wait(); close(errChan); the collect loop
WaitAndCollect ==
  /\ main.pc = "wait"
  /\ WaitDone
  /\ errChan' = [errChan EXCEPT !.buf = << >>, !.closed = TRUE]
  /\ main' = [main EXCEPT !.pc = "settime", !.errors = errChan.buf]
  /\ UNCHANGED << aggVars, restVars, run, fileChan, wg, worker, audit >>

\* a.aggregator.GetStats().SetProcessingTime(time.Since(startTime))
SetProcessingTime ==
  /\ main.pc = "settime"
  /\ StatsMuFree
  /\ \E d \in ElapsedTimes : stats' = [stats EXCEPT !.ProcessingTime = d]
  /\ main' = [main EXCEPT !.pc = "sort"]
  /\ UNCHANGED << entries, a_mu, s_mu, frame, restVars, run, fileChan, errChan, wg, worker, audit >>

\* variant of the definition below: the collected errors are ignored
DirResultSwallowsErrors(errors) == NoError

\* the value AnalyzeDirectory returns after the sort
DirResult(errors) ==
  IF Len(errors) > 0 THEN Error("aggregate", Len(errors)) ELSE NoError

\* a.aggregator.SortByTime() and the return
SortAndReturn ==
  /\ main.pc = "sort"
  /\ AggMuFree
  /\ entries' \in SortByTimeResult(entries)
  /\ main' = [main EXCEPT !.pc = "returned", !.ret = DirResult(main.errors)]
  /\ UNCHANGED << a_mu, stats, s_mu, frame, restVars, run, fileChan, errChan, wg, worker, audit >>

\* ---------------------------------------------------- worker goroutines
\* for file := range fileChan: a path is received
RecvFile(w) ==
  /\ worker[w].pc = "recv"
  /\ Len(fileChan.buf) > 0
  /\ fileChan' = [fileChan EXCEPT !.buf = Tail(@)]
  /\ worker' = [worker EXCEPT ![w].pc = "open", ![w].file = Head(fileChan.buf)]
  /\ audit' = [audit EXCEPT !.runs[Head(fileChan.buf)] = @ + 1]
  /\ UNCHANGED << aggVars, restVars, run, main, errChan, wg >>

\* for file := range fileChan: the channel is closed and drained
RangeEnd(w) ==
  /\ worker[w].pc = "recv"
  /\ Len(fileChan.buf) = 0
  /\ fileChan.closed
  /\ worker' = [worker EXCEPT ![w].pc = "done", ![w].file = ""]
  /\ UNCHANGED << aggVars, restVars, run, main, fileChan, errChan, wg, audit >>

\* the goroutine returns: the deferred wg.Done()
WorkerDone(w) ==
  /\ worker[w].pc = "done"
  /\ worker' = [worker EXCEPT ![w].pc = "exit"]
  /\ wg' = wg - 1
  /\ UNCHANGED << aggVars, restVars, run, main, fileChan, errChan, audit >>

\* AnalyzeFile: os.Open, file.Stat, the scanner and the local buffer
OpenFile(w) ==
  /\ worker[w].pc = "open"
  /\ worker' = IF OpenFails(worker[w].file)
                 THEN [worker EXCEPT ![w].pc = "senderr"]
               ELSE [worker EXCEPT ![w].pc = "scan", ![w].line = 1,
                                   ![w].buf = << >>, ![w].scanErr = FALSE]
  /\ UNCHANGED << aggVars, restVars, run, main, fileChan, errChan, wg, audit >>

\* the frame of a call a.aggregator.AddBatch(entries)
CallAddBatch(batch) ==
  [NoFrame EXCEPT !.pc = "lock", !.op = "AddBatch", !.batch = batch]

\* the line scanner.Text() returns next, whether AnalyzeFile keeps it (it
\* parses and passes shouldInclude), and the local buffer after that line
CurLine(w) == FileLines(worker[w].file)[worker[w].line]

Accepted(w) ==
  /\ CanParseLine(CurLine(w))
  /\ shouldInclude(run.config, ParseLine(CurLine(w), worker[w].file))

BufAfterLine(w) ==
  IF Accepted(w) THEN Append(worker[w].buf, ParseLine(CurLine(w), worker[w].file))
  ELSE worker[w].buf

\* one iteration of for scanner.Scan(): blank and unparsable lines are
\* skipped, a record that passes the filter is buffered, a full buffer is
\* handed to AddBatch
ScanLine(w) ==
  /\ worker[w].pc = "scan"
  /\ worker[w].line <= Len(FileLines(worker[w].file))
  /\ CurLine(w).kind /= "toolong"
  /\ IF Accepted(w) /\ Len(BufAfterLine(w)) >= BatchSize
       THEN /\ worker' = [worker EXCEPT ![w].pc = "flush", ![w].line = @ + 1,
                                        ![w].buf = BufAfterLine(w)]
            /\ frame' = [frame EXCEPT ![w] = CallAddBatch(BufAfterLine(w))]
       ELSE /\ worker' = [worker EXCEPT ![w].line = @ + 1, ![w].buf = BufAfterLine(w)]
            /\ UNCHANGED frame
  /\ UNCHANGED << entries, a_mu, stats, s_mu, restVars, run, main, fileChan, errChan, wg, audit >>

\* variant of the definition below: the buffer is kept after the flush
FlushReturnKeepsBuffer(w) ==
  /\ worker[w].pc = "flush"
  /\ frame[w].pc = "ret"
  /\ worker' = [worker EXCEPT ![w].pc = "scan"]
  /\ frame' = [frame EXCEPT ![w] = NoFrame]
  /\ UNCHANGED << entries, a_mu, stats, s_mu, restVars, run, main, fileChan, errChan, wg, audit >>

\* AddBatch returned in mid-file: entries = make([]*models.LogEntry, 0, 1000)
FlushReturn(w) ==
  /\ worker[w].pc = "flush"
  /\ frame[w].pc = "ret"
  /\ worker' = [worker EXCEPT ![w].pc = "scan", ![w].buf = << >>]
  /\ frame' = [frame EXCEPT ![w] = NoFrame]
  /\ UNCHANGED << entries, a_mu, stats, s_mu, restVars, run, main, fileChan, errChan, wg, audit >>

\* scanner.Scan() returns false (end of file, or a line over the maximum);
\* the remaining entries are handed to AddBatch
AtEOF(w) == worker[w].line > Len(FileLines(worker[w].file))

ScanStops(w) == IF AtEOF(w) THEN TRUE ELSE CurLine(w).kind = "toolong"

\* variant of the definition below: a scan that stopped on an error drops the
\* buffered entries
ScanEndDropsOnError(w) ==
  /\ worker[w].pc = "scan"
  /\ ScanStops(w)
  /\ worker' = [worker EXCEPT ![w].pc = "errcheck", ![w].scanErr = ~AtEOF(w)]
  /\ frame' = IF Len(worker[w].buf) > 0 /\ AtEOF(w)
                THEN [frame EXCEPT ![w] = CallAddBatch(worker[w].buf)]
              ELSE frame
  /\ UNCHANGED << entries, a_mu, stats, s_mu, restVars, run, main, fileChan, errChan, wg, audit >>

ScanEnd(w) ==
  /\ worker[w].pc = "scan"
  /\ ScanStops(w)
  /\ worker' = [worker EXCEPT ![w].pc = "errcheck", ![w].scanErr = ~AtEOF(w)]
  /\ frame' = IF Len(worker[w].buf) > 0
                THEN [frame EXCEPT ![w] = CallAddBatch(worker[w].buf)]
              ELSE frame
  /\ UNCHANGED << entries, a_mu, stats, s_mu, restVars, run, main, fileChan, errChan, wg, audit >>

\* if err := scanner.Err(); err != nil { return ... }
ErrCheck(w) ==
  /\ worker[w].pc = "errcheck"
  /\ frame[w].pc \in {"none", "ret"}
  /\ worker' = [worker EXCEPT ![w].pc = IF worker[w].scanErr THEN "senderr" ELSE "addfile",
                              ![w].buf = << >>]
  /\ frame' = [frame EXCEPT ![w] = NoFrame]
  /\ UNCHANGED << entries, a_mu, stats, s_mu, restVars, run, main, fileChan, errChan, wg, audit >>

\* a.aggregator.GetStats().AddFile(fileInfo.Size()): s.mu.Lock()
AddFileLock(w) ==
  /\ worker[w].pc = "addfile"
  /\ StatsMuFree
  /\ s_mu' = s_mu \cup {w}
  /\ worker' = [worker EXCEPT ![w].pc = "addfile_upd"]
  /\ UNCHANGED << entries, a_mu, stats, frame, restVars, run, main, fileChan, errChan, wg, audit >>

\* variant of the definition below: the goroutine returns on the first error
AfterErrorReturn == "done"

\* where the worker goes once AnalyzeFile has returned an error and the error
\* is sent: back to the head of the range loop
AfterError == "recv"

\* ... the update, s.mu.Unlock(), and AnalyzeFile returns nil
AddFileUpdate(w) ==
  /\ worker[w].pc = "addfile_upd"
  /\ stats' = AddFile(stats, FileSize(worker[w].file))
  /\ s_mu' = StatsUnlock(s_mu, w)
  /\ worker' = [worker EXCEPT ![w].pc = "recv"]
  /\ audit' = [audit EXCEPT !.outcome[worker[w].file] = "ok"]
  /\ UNCHANGED << entries, a_mu, frame, restVars, run, main, fileChan, errChan, wg >>

\* AnalyzeFile returned an error: errChan <- fmt.Errorf("worker %d: %w", ...)
SendErr(w) ==
  /\ worker[w].pc = "senderr"
  /\ Len(errChan.buf) < errChan.cap
  /\ errChan' = [errChan EXCEPT !.buf = Append(@, [workerID |-> w - 1, file |-> worker[w].file])]
  /\ worker' = [worker EXCEPT ![w].pc = AfterError, ![w].failed = TRUE]
  /\ audit' = [audit EXCEPT !.outcome[worker[w].file] = "err"]
  /\ UNCHANGED << aggVars, restVars, run, main, fileChan, wg >>

\* ------------------------------------- handleAnalyze / handleStats
\* if err != nil { fmt.Printf("Error: ..."); os.Exit(1) }
HandlerCheck ==
  /\ main.pc = "returned"
  /\ main.hpc = "analyzing"
  /\ main' = [main EXCEPT !.hpc = IF main.ret.kind /= "nil" THEN "exit1" ELSE "report"]
  /\ UNCHANGED << aggVars, restVars, run, fileChan, errChan, wg, worker, audit >>

\* results.GetEntries(), results.GetStats(), rep.Report(entries, stats, w)
\* (handleAnalyze); stats.Summary() (handleStats)
Report ==
  /\ main.hpc = "report"
  /\ AggMuFree
  /\ StatsMuFree
  /\ main' = [main EXCEPT !.hpc = "reported",
                          !.report = << [entries |-> IF run.command = "stats" THEN << >> ELSE entries,
                                         stats |-> stats] >>]
  /\ UNCHANGED << aggVars, restVars, run, fileChan, errChan, wg, worker, audit >>

\* a specification without a directory run starts with this one, idle
InertRun ==
  [command |-> "analyze",
   config |-> Config(0, Invocation("analyze", DEBUG, << >>, 0, 0)),
   dir |-> Dir(FALSE, << >>)]

\* no filter is being probed and no file is watched
NoCalc == [op |-> "none"]
NoWatch == [pc |-> "none"]

InitRest ==
  /\ calc = NoCalc
  /\ wfile = << >>
  /\ watch = NoWatch
  /\ sink = << >>

InitDir == InitAggregator /\ InitRest /\ \E r \in RunConfigs : InitDirVars(r, "start")

NextDir ==
  \/ FindLogFiles
  \/ FillQueue
  \/ Spawn
  \/ WaitAndCollect
  \/ SetProcessingTime
  \/ SortAndReturn
  \/ HandlerCheck
  \/ Report
  \/ \E w \in Workers : RecvFile(w)
  \/ \E w \in Workers : RangeEnd(w)
  \/ \E w \in Workers : WorkerDone(w)
  \/ \E w \in Workers : OpenFile(w)
  \/ \E w \in Workers : ScanLine(w)
  \/ \E w \in Workers : FlushReturn(w)
  \/ \E w \in Workers : ScanEnd(w)
  \/ \E w \in Workers : ErrCheck(w)
  \/ \E w \in Workers : AddFileLock(w)
  \/ \E w \in Workers : AddFileUpdate(w)
  \/ \E w \in Workers : SendErr(w)
  \/ \E w \in Workers : ALock(w) /\ UNCHANGED << dirVars, restVars >>
  \/ \E w \in Workers : AppendLoad(w) /\ UNCHANGED << dirVars, restVars >>
  \/ \E w \in Workers : AppendStore(w) /\ UNCHANGED << dirVars, restVars >>
  \/ \E w \in Workers : StatsLock(w) /\ UNCHANGED << dirVars, restVars >>
  \/ \E w \in Workers : StatsAddEntry(w) /\ UNCHANGED << dirVars, restVars >>
  \/ \E w \in Workers : AUnlock(w) /\ UNCHANGED << dirVars, restVars >>

SpecDir == InitDir /\ [][NextDir]_vars

\* the Go scheduler runs every goroutine that can take a step
SpecDirFair == SpecDir /\ WF_vars(NextDir)

\* ------------------------------------------- SpecAgg: concurrent callers
Callers == 1..NumCallers

\* a caller enters Aggregator.Add(entry)
Add(t, e) ==
  /\ frame[t].pc = "none"
  /\ frame' = [frame EXCEPT ![t] = [NoFrame EXCEPT !.pc = "lock", !.op = "Add", !.batch = << e >>]]
  /\ UNCHANGED << entries, a_mu, stats, s_mu >>

\* a caller enters Aggregator.AddBatch(entries)
AddBatch(t, batch) ==
  /\ frame[t].pc = "none"
  /\ frame' = [frame EXCEPT ![t] = [NoFrame EXCEPT !.pc = "lock", !.op = "AddBatch", !.batch = batch]]
  /\ UNCHANGED << entries, a_mu, stats, s_mu >>

\* the directory run is not part of this specification
InitAgg ==
  /\ InitAggregator
  /\ InitRest
  /\ InitDirVars(InertRun, "idle")

NextAgg ==
  \/ \E t \in Callers, e \in RecordSet : Add(t, e) /\ UNCHANGED << dirVars, restVars >>
  \/ \E t \in Callers, b \in SeqsUpTo(RecordSet, MaxBatch) : AddBatch(t, b) /\ UNCHANGED << dirVars, restVars >>
  \/ \E t \in Callers : ALock(t) /\ UNCHANGED << dirVars, restVars >>
  \/ \E t \in Callers : AppendLoad(t) /\ UNCHANGED << dirVars, restVars >>
  \/ \E t \in Callers : AppendStore(t) /\ UNCHANGED << dirVars, restVars >>
  \/ \E t \in Callers : StatsLock(t) /\ UNCHANGED << dirVars, restVars >>
  \/ \E t \in Callers : StatsAddEntry(t) /\ UNCHANGED << dirVars, restVars >>
  \/ \E t \in Callers : AUnlock(t) /\ UNCHANGED << dirVars, restVars >>

SpecAgg == InitAgg /\ [][NextAgg]_vars

\* ------------------- SpecOps: a writer and a reader of one aggregator
\* the goroutine that adds, sorts and clears, and the one that calls GetEntries
Writer == 1
Reader == 2

\* records the writer adds: two of them carry the same timestamp
SortRecords ==
  { Rec(2, INFO, "a.log"), Rec(1, ERROR, "b.log"), Rec(1, INFO, "a.log") }

\* a caller enters SortByTime, GetEntries or Clear
CallOp(t, op) ==
  /\ frame[t].pc = "none"
  /\ frame' = [frame EXCEPT ![t] = [NoFrame EXCEPT !.pc = "enter", !.op = op]]
  /\ UNCHANGED << entries, a_mu, stats, s_mu >>

\* a.mu.Lock() of SortByTime, GetEntries and Clear
OpLock(t) ==
  /\ frame[t].pc = "enter"
  /\ AggMuFree
  /\ a_mu' = a_mu \cup {t}
  /\ frame' = [frame EXCEPT ![t].pc = "body"]
  /\ UNCHANGED << entries, stats, s_mu >>

\* what a slice that shares the backing array of a.entries shows once the
\* array has been rewritten in place to hold arr
ViewOf(r, arr) ==
  IF r.shared /\ Len(r.items) <= Len(arr)
    THEN [r EXCEPT !.items = SubSeq(arr, 1, Len(r.items))]
  ELSE r

\* sort.Slice(a.entries, ...): the backing array is sorted in place
SortSlice(t) ==
  /\ frame[t].pc = "body"
  /\ frame[t].op = "SortByTime"
  /\ \E sorted \in SortByTimeResult(entries) :
       /\ entries' = sorted
       /\ frame' = [u \in Threads |->
                     IF u = t THEN [frame[u] EXCEPT !.pc = "unlock"]
                     ELSE [frame[u] EXCEPT !.result = ViewOf(@, sorted)]]
  /\ UNCHANGED << a_mu, stats, s_mu >>

\* variant of the definition below: return a.entries itself
GetEntriesNoCopy(s) == [items |-> s, shared |-> TRUE]

\* result := make(..., len(a.entries)); copy(result, a.entries)
GetEntriesResult(s) == [items |-> s, shared |-> FALSE]

\* the body of GetEntries
CopyEntries(t) ==
  /\ frame[t].pc = "body"
  /\ frame[t].op = "GetEntries"
  /\ frame' = [frame EXCEPT ![t].pc = "unlock", ![t].result = GetEntriesResult(entries)]
  /\ UNCHANGED << entries, a_mu, stats, s_mu >>

\* the body of Clear: a.entries and a.stats are replaced by fresh objects, so
\* no slice handed out before shares the new backing array
ClearEntries(t) ==
  /\ frame[t].pc = "body"
  /\ frame[t].op = "Clear"
  /\ entries' = << >>
  /\ stats' = NewStatistics
  /\ frame' = [u \in Threads |->
                 IF u = t THEN [frame[u] EXCEPT !.pc = "unlock"]
                 ELSE [frame[u] EXCEPT !.result.shared = FALSE]]
  /\ UNCHANGED << a_mu, s_mu >>

\* the writer's call has returned and it goes on to its next call
WriterReturns(t) ==
  /\ frame[t].pc = "ret"
  /\ frame' = [frame EXCEPT ![t] = NoFrame]
  /\ UNCHANGED << entries, a_mu, stats, s_mu >>

NextOps ==
  \/ \E e \in SortRecords :
        Len(entries) < MaxEntries /\ Add(Writer, e) /\ UNCHANGED << dirVars, restVars >>
  \/ \E b \in SeqsUpTo(SortRecords, MaxBatch) :
        /\ Len(entries) + Len(b) <= MaxEntries
        /\ AddBatch(Writer, b)
        /\ UNCHANGED << dirVars, restVars >>
  \/ CallOp(Writer, "SortByTime") /\ UNCHANGED << dirVars, restVars >>
  \/ CallOp(Writer, "Clear") /\ UNCHANGED << dirVars, restVars >>
  \/ CallOp(Reader, "GetEntries") /\ UNCHANGED << dirVars, restVars >>
  \/ \E t \in {Writer, Reader} : OpLock(t) /\ UNCHANGED << dirVars, restVars >>
  \/ SortSlice(Writer) /\ UNCHANGED << dirVars, restVars >>
  \/ ClearEntries(Writer) /\ UNCHANGED << dirVars, restVars >>
  \/ CopyEntries(Reader) /\ UNCHANGED << dirVars, restVars >>
  \/ WriterReturns(Writer) /\ UNCHANGED << dirVars, restVars >>
  \/ ALock(Writer) /\ UNCHANGED << dirVars, restVars >>
  \/ AppendLoad(Writer) /\ UNCHANGED << dirVars, restVars >>
  \/ AppendStore(Writer) /\ UNCHANGED << dirVars, restVars >>
  \/ StatsLock(Writer) /\ UNCHANGED << dirVars, restVars >>
  \/ StatsAddEntry(Writer) /\ UNCHANGED << dirVars, restVars >>
  \/ \E t \in {Writer, Reader} : AUnlock(t) /\ UNCHANGED << dirVars, restVars >>

SpecOps == InitAgg /\ [][NextOps]_vars

\* ------------------------- SpecStamp: callers adding dated records
\* records whose timestamps include the zero time.Time (0001-01-01T00:00:00Z,
\* which parseTimestamp accepts and Timestamp.IsZero reports as zero)
StampRecords ==
  { Rec(0, INFO, "a.log"), Rec(2, ERROR, "b.log") }

NextStamp ==
  \/ \E t \in Callers, e \in StampRecords : Add(t, e) /\ UNCHANGED << dirVars, restVars >>
  \/ \E t \in Callers, b \in SeqsUpTo(StampRecords, MaxBatch) :
        AddBatch(t, b) /\ UNCHANGED << dirVars, restVars >>
  \/ \E t \in Callers : ALock(t) /\ UNCHANGED << dirVars, restVars >>
  \/ \E t \in Callers : AppendLoad(t) /\ UNCHANGED << dirVars, restVars >>
  \/ \E t \in Callers : AppendStore(t) /\ UNCHANGED << dirVars, restVars >>
  \/ \E t \in Callers : StatsLock(t) /\ UNCHANGED << dirVars, restVars >>
  \/ \E t \in Callers : StatsAddEntry(t) /\ UNCHANGED << dirVars, restVars >>
  \/ \E t \in Callers : AUnlock(t) /\ UNCHANGED << dirVars, restVars >>

SpecStamp == InitAgg /\ [][NextStamp]_vars

\* ------------------------------------- SpecFilter: minimum-level filters
\* variant of the definition below: the comparison of LevelFilter
MinLevelFilterExact(minLevel, e) == e.level = minLevel

\* MinLevelFilter(minLevel)(entry)
MinLevelFilter(minLevel, e) == e.level >= minLevel

\* the severities a minimum level can be set to (UNKNOWN stands for "no
\* minimum level" in Config.Level and is no threshold)
Thresholds == DEBUG..FATAL

\* the records the filters are applied to: one of each level
SampleRecords == { Rec(1, l, "a.log") : l \in Levels }

FilterNames == {"shouldInclude", "MinLevelFilter"}

\* the filter fn with minimum level t applied to record e
ApplyFilter(fn, t, e) ==
  IF fn = "shouldInclude"
    THEN shouldInclude(Config(1, Invocation("library", t, << >>, 0, 0)), e)
  ELSE MinLevelFilter(t, e)

\* filter fn is run over the records with the k-th threshold
RunFilter(fn, k) ==
  /\ calc.op = "filter"
  /\ << fn, k >> \notin calc.done
  /\ calc' = [calc EXCEPT !.done = @ \cup { << fn, k >> },
                          !.out[<< fn, k >>] =
                             { e \in calc.records : ApplyFilter(fn, calc.t[k], e) }]
  /\ UNCHANGED << aggVars, dirVars, wfile, watch, sink >>

InitFilter ==
  /\ InitAggregator
  /\ InitDirVars(InertRun, "idle")
  /\ \E rs \in SUBSET SampleRecords, t1 \in Thresholds, t2 \in Thresholds :
       calc = [op |-> "filter", records |-> rs, t |-> << t1, t2 >>, done |-> {},
               out |-> [p \in FilterNames \X {1, 2} |-> {}]]
  /\ wfile = << >>
  /\ watch = NoWatch
  /\ sink = << >>

NextFilter ==
  \/ \E k \in {1, 2} : RunFilter("shouldInclude", k)
  \/ \E k \in {1, 2} : RunFilter("MinLevelFilter", k)

SpecFilter == InitFilter /\ [][NextFilter]_vars

\* ------------------------------------------- SpecWatch: Watcher.Watch
\* The watched file is a sequence of bytes; another process appends whole
\* lines to it (each ends in a newline) or truncates it.  wfile also keeps
\* facts of its history: the lines it consists of, how many lines were ever
\* written, and whether it was ever truncated.
WatchLines ==
  { Line(2, ERROR, << "o", "k" >>), Text(1, INFO, << "o" >>), Malformed, Blank }

LineBytes(l) == l.raw \o << "\n" >>

RECURSIVE Content(_)
Content(ls) == IF ls = << >> THEN << >> ELSE LineBytes(Head(ls)) \o Content(Tail(ls))

\* handleWatch: --all, --level (DEBUG when absent), --pattern; os.Open of the
\* path succeeds or fails
WatchConfigs ==
  { [FilePath |-> "w.log", ShowAll |-> a, MinLevel |-> f[1], Pattern |-> f[2],
     Readable |-> r] :
      a \in BOOLEAN, r \in BOOLEAN,
      f \in { << DEBUG, << >> >>, << ERROR, << >> >>, << DEBUG, << "o", "k" >> >> } }

\* bufio.Scanner with ScanLines over the bytes from the read position to the
\* end of the file: the text between newlines, and a last piece without one
RECURSIVE SplitLines(_)
SplitLines(b) ==
  IF b = << >> THEN << >>
  ELSE IF \A i \in 1..Len(b) : b[i] /= "\n" THEN << b >>
  ELSE CHOOSE r \in { << SubSeq(b, 1, k - 1) >> \o SplitLines(SubSeq(b, k + 1, Len(b))) :
                        k \in { i \in 1..Len(b) :
                                  b[i] = "\n" /\ \A j \in 1..(i - 1) : b[j] /= "\n" } } : TRUE

\* what the text of a line decodes to (json.Unmarshal, extractTimestamp,
\* extractLevelAndMessage): one of the lines above, or text without a
\* timestamp and a level word
Decode(text) ==
  IF \E l \in WatchLines : l.raw = text
    THEN CHOOSE l \in WatchLines : l.raw = text
  ELSE [kind |-> "other", raw |-> text]

\* Watcher.displayEntry: time of day, level and message are printed
displayEntry(e) == [time |-> e.ts, level |-> e.level, message |-> e.message]

\* variant of the definition below: the pattern is not looked at
AcceptsAnyPattern(cfg, e) ==
  ~(cfg.MinLevel /= UNKNOWN /\ e.level < cfg.MinLevel)

\* Watcher.processLine, lines 151-157: the two tests an entry has to pass
Accepts(cfg, e) ==
  /\ ~(cfg.MinLevel /= UNKNOWN /\ e.level < cfg.MinLevel)
  /\ ~(cfg.Pattern /= << >> /\ ~MatchesPattern(e, cfg.Pattern))

\* Watcher.processLine: what it prints for one line (nothing or one entry)
processLine(cfg, text) ==
  IF text = << >> THEN << >>
  ELSE LET r == Parse(Decode(text), cfg.FilePath)
       IN IF r.err /= "nil" THEN << >>
          ELSE IF ~Accepts(cfg, r.entry) THEN << >>
          ELSE << displayEntry(r.entry) >>

\* for scanner.Scan() { w.processLine(scanner.Text()) }
RECURSIVE ScanAll(_, _)
ScanAll(cfg, lines) ==
  IF lines = << >> THEN << >>
  ELSE processLine(cfg, Head(lines)) \o ScanAll(cfg, Tail(lines))

\* the bytes the file handle has not read yet
Unread == SubSeq(wfile.bytes, watch.pos + 1, Len(wfile.bytes))

\* os.Open (lines 44-50)
WatchOpen ==
  /\ watch.pc = "open"
  /\ watch' = IF watch.cfg.Readable THEN [watch EXCEPT !.pc = "start"]
              ELSE [watch EXCEPT !.pc = "returned", !.err = "open"]
  /\ UNCHANGED << aggVars, dirVars, calc, wfile, sink >>

\* variant of the definition below: the seek to the end is left out
StartOffsetZero(cfg, size) == 0

\* where reading starts: at fileInfo.Size() unless ShowAll (lines 53-62)
StartOffset(cfg, size) == IF cfg.ShowAll THEN 0 ELSE size

\* the seek to the end unless ShowAll (lines 53-62), fsnotify.NewWatcher and
\* fsWatcher.Add, the banner and the ticker (lines 65-87); opened remembers
\* the lines in the file at this moment
WatchStart ==
  /\ watch.pc = "start"
  /\ watch' = [watch EXCEPT !.pc = "loop",
                            !.opened = wfile.lines,
                            !.lastOffset = StartOffset(watch.cfg, Len(wfile.bytes)),
                            !.pos = StartOffset(watch.cfg, Len(wfile.bytes))]
  /\ UNCHANGED << aggVars, dirVars, calc, wfile, sink >>

\* the operations fsnotify reports for the watched path: a write, and the
\* others (Chmod stands for Chmod, Rename, Remove, Create)
Ops == { "write", "chmod" }

\* the goroutine is inside Watch with the path registered and the ticker on
Registered == watch.pc \in { "loop", "stat", "scan" }

\* variant of the definition below: every notification starts a read
AfterEventAnyOp(w, op) == [w EXCEPT !.pc = "stat", !.events = @ \ { op }]

\* if event.Op&fsnotify.Write == fsnotify.Write { w.readNewLines() }
AfterEvent(w, op) ==
  IF op = "write" THEN [w EXCEPT !.pc = "stat", !.events = @ \ { op }]
  ELSE [w EXCEPT !.events = @ \ { op }]

\* select: case event := <-fsWatcher.Events
OnEvent ==
  /\ watch.pc = "loop"
  /\ \E op \in watch.events : watch' = AfterEvent(watch, op)
  /\ UNCHANGED << aggVars, dirVars, calc, wfile, sink >>

\* select: case <-ticker.C
OnTick ==
  /\ watch.pc = "loop"
  /\ watch.tick
  /\ watch' = [watch EXCEPT !.pc = "stat", !.tick = FALSE]
  /\ UNCHANGED << aggVars, dirVars, calc, wfile, sink >>

\* variant of the definition below: the error is taken and the loop goes on
WatcherErrorIgnored(w) == [w EXCEPT !.fserr = FALSE]

\* return fmt.Errorf("watcher error: %w", err)
WatcherError(w) == [w EXCEPT !.pc = "returned", !.err = "watcher", !.fserr = FALSE]

\* select: case err := <-fsWatcher.Errors
OnError ==
  /\ watch.pc = "loop"
  /\ watch.fserr
  /\ watch' = WatcherError(watch)
  /\ UNCHANGED << aggVars, dirVars, calc, wfile, sink >>

\* variant of the definition below: the channel is always ready
DoneAlways(w) == TRUE

\* variant of the definition below: the channel is never ready
DoneNever(w) == FALSE

\* ctx.Done() is closed, so the receive from it can proceed
Done(w) == w.cancelled

\* select: case <-ctx.Done(): return nil
OnCancel ==
  /\ watch.pc = "loop"
  /\ Done(watch)
  /\ watch' = [watch EXCEPT !.pc = "returned", !.err = "nil"]
  /\ UNCHANGED << aggVars, dirVars, calc, wfile, sink >>

\* variant of the definition below: the offset is reset but the file handle
\* is not moved back to the start
AfterStatNoSeek(w, currentSize) ==
  IF currentSize < w.lastOffset
    THEN [w EXCEPT !.pc = "scan", !.size = currentSize, !.lastOffset = 0,
                   !.reset = TRUE]
  ELSE [w EXCEPT !.pc = "scan", !.size = currentSize]

\* readNewLines, lines 117-123: currentSize is kept, and when it is smaller
\* than lastOffset the offset is set to 0 and the handle seeks to the start;
\* reset remembers that this branch was taken
AfterStat(w, currentSize) ==
  IF currentSize < w.lastOffset
    THEN [w EXCEPT !.pc = "scan", !.size = currentSize, !.lastOffset = 0,
                   !.pos = 0, !.reset = TRUE]
  ELSE [w EXCEPT !.pc = "scan", !.size = currentSize]

\* readNewLines, lines 112-123: the size query and the truncation check
ReadStat ==
  /\ watch.pc = "stat"
  /\ watch' = AfterStat(watch, Len(wfile.bytes))
  /\ UNCHANGED << aggVars, dirVars, calc, wfile, sink >>

\* w.lastOffset = currentSize (line 133)
OffsetAfterRead(w) == w.size

\* variant of the definition below: the handle is back where the read began
PosAfterScanKept(w, length) == w.pos

\* the scanner reads w.file until Read reports the end of the file, which
\* leaves the position of the handle there (lines 126-130)
PosAfterScan(w, length) == IF w.pos < length THEN length ELSE w.pos

\* readNewLines, lines 126-133: the scanner reads from the position of the
\* file handle to the end of the file, every line goes to processLine, and
\* the offset is set to the size queried before
ReadScan ==
  /\ watch.pc = "scan"
  /\ \E lines \in { SplitLines(Unread) } : sink' = sink \o ScanAll(watch.cfg, lines)
  /\ watch' = [watch EXCEPT !.pc = "loop",
                            !.pos = PosAfterScan(watch, Len(wfile.bytes)),
                            !.lastOffset = OffsetAfterRead(watch),
                            !.hasRead = TRUE, !.reset = FALSE]
  /\ UNCHANGED << aggVars, dirVars, calc, wfile >>

\* the signal handler of handleWatch calls cancel()
Cancel ==
  /\ ~watch.cancelled
  /\ watch.pc /= "returned"
  /\ watch' = [watch EXCEPT !.cancelled = TRUE]
  /\ UNCHANGED << aggVars, dirVars, calc, wfile, sink >>

\* another process appends a line; once the path is registered with
\* fsnotify a Write event becomes pending
AppendLine(l) ==
  /\ wfile.written < MaxLines
  /\ wfile' = [wfile EXCEPT !.bytes = @ \o LineBytes(l), !.lines = Append(@, l),
                            !.written = @ + 1]
  /\ watch' = [watch EXCEPT !.events = IF Registered THEN @ \cup { "write" } ELSE @]
  /\ UNCHANGED << aggVars, dirVars, calc, sink >>

\* another process truncates the file (log rotation)
Truncate ==
  /\ wfile.bytes /= << >>
  /\ ~wfile.shrunk
  /\ wfile' = [wfile EXCEPT !.bytes = << >>, !.lines = << >>, !.shrunk = TRUE]
  /\ watch' = [watch EXCEPT !.events = IF Registered THEN @ \cup { "write" } ELSE @]
  /\ UNCHANGED << aggVars, dirVars, calc, sink >>

\* another process changes the mode of the file: fsnotify reports Chmod
Chmod ==
  /\ Registered
  /\ "chmod" \notin watch.events
  /\ watch' = [watch EXCEPT !.events = @ \cup { "chmod" }]
  /\ UNCHANGED << aggVars, dirVars, calc, wfile, sink >>

\* the interval of the ticker passes: a tick waits in ticker.C (a channel
\* of capacity 1; a tick that finds it full is dropped)
Tick ==
  /\ Registered
  /\ ~watch.tick
  /\ watch' = [watch EXCEPT !.tick = TRUE]
  /\ UNCHANGED << aggVars, dirVars, calc, wfile, sink >>

\* the notification subsystem reports an error (an overflow of its queue)
FsError ==
  /\ Registered
  /\ ~watch.fserr
  /\ watch' = [watch EXCEPT !.fserr = TRUE]
  /\ UNCHANGED << aggVars, dirVars, calc, wfile, sink >>

\* NewWatcher(config) and the file as it is when Watch is called
InitWatch ==
  /\ InitAggregator
  /\ InitDirVars(InertRun, "idle")
  /\ calc = NoCalc
  /\ \E ls \in SeqsUpTo(WatchLines, MaxInitial) :
       wfile = [bytes |-> Content(ls), lines |-> ls, written |-> Len(ls),
                shrunk |-> FALSE]
  /\ \E c \in WatchConfigs :
       watch = [pc |-> "open", cfg |-> c, lastOffset |-> 0, pos |-> 0, size |-> 0,
                events |-> {}, tick |-> FALSE, fserr |-> FALSE,
                cancelled |-> FALSE, err |-> "none",
                opened |-> << >>, hasRead |-> FALSE, reset |-> FALSE]
  /\ sink = << >>

NextWatch ==
  \/ WatchOpen
  \/ WatchStart
  \/ OnEvent
  \/ OnTick
  \/ OnCancel
  \/ ReadStat
  \/ ReadScan
  \/ Cancel
  \/ \E l \in WatchLines : AppendLine(l)
  \/ Truncate
  \/ Tick

SpecWatch == InitWatch /\ [][NextWatch]_vars

\* ---------------------------------------------------------------------
\* The accept decision of the watcher next to the filter predicates of
\* package analyzer, applied to one entry.

\* PatternFilter(pattern)(entry)
PatternFilter(pattern, e) == MatchesPattern(e, pattern)

\* CombineFilters(filters...)(entry): false at the first filter that rejects;
\* a filter is given as << "MinLevel", level >> or << "Pattern", pattern >>
CombineFilters(filters, e) ==
  \A i \in 1..Len(filters) :
    IF filters[i][1] = "MinLevel" THEN MinLevelFilter(filters[i][2], e)
    ELSE PatternFilter(filters[i][2], e)

\* the entries and the settings the decisions are taken for
AcceptEntries ==
  { LogEntry(1, l, m, "w.log", << LevelText(l), " " >> \o m) :
      l \in Levels, m \in { << "o", "k" >>, << "k" >> } }

AcceptPatterns == { << >>, << "o" >>, << "o", "k" >> }

\* a decision as it is recorded
Verdict(b) == IF b THEN "yes" ELSE "no"

\* processLine decides about the entry
WatcherDecides ==
  /\ calc.op = "accept"
  /\ calc.watcher = "none"
  /\ calc' = [calc EXCEPT !.watcher = Verdict(Accepts(calc.cfg, calc.entry))]
  /\ UNCHANGED << aggVars, dirVars, wfile, watch, sink >>

\* CombineFilters(MinLevelFilter(min), PatternFilter(pattern)) decides
FiltersDecide ==
  /\ calc.op = "accept"
  /\ calc.combined = "none"
  /\ calc' = [calc EXCEPT !.combined =
                 Verdict(CombineFilters(<< << "MinLevel", calc.cfg.MinLevel >>,
                                           << "Pattern", calc.cfg.Pattern >> >>,
                                        calc.entry))]
  /\ UNCHANGED << aggVars, dirVars, wfile, watch, sink >>

InitAccept ==
  /\ InitAggregator
  /\ InitDirVars(InertRun, "idle")
  /\ \E e \in AcceptEntries, min \in Levels, p \in AcceptPatterns :
       calc = [op |-> "accept", entry |-> e,
               cfg |-> [FilePath |-> "w.log", ShowAll |-> FALSE, MinLevel |-> min,
                        Pattern |-> p, Readable |-> TRUE],
               watcher |-> "none", combined |-> "none"]
  /\ wfile = << >>
  /\ watch = NoWatch
  /\ sink = << >>

NextAccept == WatcherDecides \/ FiltersDecide

SpecAccept == InitAccept /\ [][NextAccept]_vars

\* ---------------------------------------------------------------------
\* PlainTextLogParser on the characters of a line (a line is a sequence of
\* one-character strings).  The lines of the file model above stand for
\* what these functions return; here they are computed.

LowerCase ==
  << "a", "b", "c", "d", "e", "f", "g", "h", "i", "j", "k", "l", "m",
     "n", "o", "p", "q", "r", "s", "t", "u", "v", "w", "x", "y", "z" >>
UpperCase ==
  << "A", "B", "C", "D", "E", "F", "G", "H", "I", "J", "K", "L", "M",
     "N", "O", "P", "Q", "R", "S", "T", "U", "V", "W", "X", "Y", "Z" >>

\* strings.ToUpper
ToUpper(s) ==
  [i \in 1..Len(s) |->
     IF \E k \in 1..26 : LowerCase[k] = s[i]
       THEN UpperCase[CHOOSE k \in 1..26 : LowerCase[k] = s[i]]
     ELSE s[i]]

\* strings.HasPrefix
HasPrefix(s, prefix) ==
  Len(s) >= Len(prefix) /\ SubSeq(s, 1, Len(prefix)) = prefix

\* the level words of extractLevelAndMessage, character by character
WFATAL == << "F", "A", "T", "A", "L" >>
WERROR == << "E", "R", "R", "O", "R" >>
WWARN == << "W", "A", "R", "N" >>
WWARNING == << "W", "A", "R", "N", "I", "N", "G" >>
WINFO == << "I", "N", "F", "O" >>
WDEBUG == << "D", "E", "B", "U", "G" >>

\* the level words in the order extractLevelAndMessage tries them
LevelWords ==
  << WFATAL, WERROR, WWARN, WWARNING, WINFO, WDEBUG >>

\* variant of the definition below: WARNING is not known
ParseLogLevelNoWarning(w) ==
  IF w = WDEBUG THEN DEBUG
  ELSE IF w = WINFO THEN INFO
  ELSE IF w = WWARN THEN WARN
  ELSE IF w = WERROR THEN ERROR
  ELSE IF w = WFATAL THEN FATAL
  ELSE UNKNOWN

\* variant of the definition below: a word that is no level counts as INFO
ParseLogLevelDefaultInfo(w) ==
  IF w = WDEBUG THEN DEBUG
  ELSE IF w = WINFO THEN INFO
  ELSE IF w = WWARN \/ w = WWARNING THEN WARN
  ELSE IF w = WERROR THEN ERROR
  ELSE IF w = WFATAL THEN FATAL
  ELSE INFO

\* models.ParseLogLevel
ParseLogLevel(w) ==
  IF w = WDEBUG THEN DEBUG
  ELSE IF w = WINFO THEN INFO
  ELSE IF w = WWARN \/ w = WWARNING THEN WARN
  ELSE IF w = WERROR THEN ERROR
  ELSE IF w = WFATAL THEN FATAL
  ELSE UNKNOWN

DigitChars == << "0", "1", "2", "3", "4", "5", "6", "7", "8", "9" >>
IsDigit(c) == \E k \in 1..10 : DigitChars[k] = c
DigitValue(c) == (CHOOSE k \in 1..10 : DigitChars[k] = c) - 1

\* the number written by the digits s[from..to]
RECURSIVE Number(_, _, _)
Number(s, from, to) ==
  IF to < from THEN 0 ELSE 10 * Number(s, from, to - 1) + DigitValue(s[to])

\* days of a month of the proleptic Gregorian calendar
DaysIn(year, month) ==
  IF month \in { 4, 6, 9, 11 } THEN 30
  ELSE IF month /= 2 THEN 31
  ELSE IF year % 4 = 0 /\ (year % 100 /= 0 \/ year % 400 = 0) THEN 29
  ELSE 28

\* a point in time: << yyyymmdd, hhmmss >>
TimeOf(year, month, day, hour, minute, second) ==
  << year * 10000 + month * 100 + day, hour * 10000 + minute * 100 + second >>

\* the formats of extractTimestamp as << date separator, separator before
\* the clock >>: "2006-01-02 15:04:05", "2006/01/02 15:04:05",
\* "2006-01-02T15:04:05"
TimeFormats == << << "-", " " >>, << "/", " " >>, << "-", "T" >> >>

\* time.Parse(format, s) on 19 characters: the separators of the format,
\* digits elsewhere, and every field in its range
TimeParse(f, s) ==
  IF /\ Len(s) = 19
     /\ \A i \in { 1, 2, 3, 4, 6, 7, 9, 10, 12, 13, 15, 16, 18, 19 } : IsDigit(s[i])
     /\ s[5] = f[1] /\ s[8] = f[1] /\ s[11] = f[2] /\ s[14] = ":" /\ s[17] = ":"
     /\ Number(s, 6, 7) \in 1..12
     /\ Number(s, 9, 10) \in 1..DaysIn(Number(s, 1, 4), Number(s, 6, 7))
     /\ Number(s, 12, 13) < 24 /\ Number(s, 15, 16) < 60 /\ Number(s, 18, 19) < 60
    THEN [ok |-> TRUE,
          t |-> TimeOf(Number(s, 1, 4), Number(s, 6, 7), Number(s, 9, 10),
                       Number(s, 12, 13), Number(s, 15, 16), Number(s, 18, 19))]
  ELSE [ok |-> FALSE]

\* extractTimestamp: the leading bracket is dropped, the first format that
\* parses the first 19 characters gives the time, and the rest loses the
\* closing bracket and the surrounding spaces
extractTimestamp(line) ==
  LET trimmed == TrimSpace(line)
      hasBracket == HasPrefix(trimmed, << "[" >>)
      body == IF hasBracket THEN Tail(trimmed) ELSE trimmed
      fits == { k \in 1..Len(TimeFormats) :
                  Len(body) >= 19 /\ TimeParse(TimeFormats[k], SubSeq(body, 1, 19)).ok }
  IN IF fits = {} THEN [ok |-> FALSE, rest |-> body]
     ELSE LET k == CHOOSE i \in fits : \A j \in fits : i <= j
              rest == SubSeq(body, 20, Len(body))
          IN [ok |-> TRUE,
              t |-> TimeParse(TimeFormats[k], SubSeq(body, 1, 19)).t,
              rest |-> TrimSpace(IF hasBracket /\ HasPrefix(rest, << "]" >>)
                                   THEN Tail(rest) ELSE rest)]

\* what may follow a level word: "LEVEL:", "LEVEL -", "LEVEL "
Joiners == << << ":" >>, << " ", "-" >>, << " " >> >>

\* extractLevelAndMessage: the first level word (in the order of LevelWords)
\* that starts the upper-cased line with one of the joiners gives the level,
\* and the message is what follows; else the first level word the line
\* contains gives the level; else INFO
extractLevelAndMessage(line) ==
  LET t == TrimSpace(line)
      u == ToUpper(t)
      hits == { p \in (1..Len(LevelWords)) \X (1..Len(Joiners)) :
                  HasPrefix(u, LevelWords[p[1]] \o Joiners[p[2]]) }
      inside == { i \in 1..Len(LevelWords) : findSubstring(u, LevelWords[i]) }
  IN IF hits /= {}
       THEN LET p == CHOOSE h \in hits :
                       \A g \in hits : h[1] < g[1] \/ (h[1] = g[1] /\ h[2] <= g[2])
                n == Len(LevelWords[p[1]] \o Joiners[p[2]])
            IN [level |-> ParseLogLevel(LevelWords[p[1]]),
                message |-> TrimSpace(SubSeq(t, n + 1, Len(t)))]
     ELSE IF inside /= {}
       THEN [level |-> ParseLogLevel(LevelWords[CHOOSE i \in inside :
                                                  \A j \in inside : i <= j]),
             message |-> t]
     ELSE [level |-> INFO, message |-> t]

\* PlainTextLogParser.Parse; a record without a timestamp in the line gets
\* time.Now()
PlainTextParse(line, source) ==
  IF TrimSpace(line) = << >> THEN ParseError("ErrEmptyLine")
  ELSE LET ts == extractTimestamp(line)
           lm == extractLevelAndMessage(IF ts.ok THEN ts.rest ELSE line)
       IN Parsed(LogEntry(IF ts.ok THEN ts.t ELSE << 0, Now >>, lm.level,
                          TrimSpace(lm.message), source, line))

\* PlainTextLogParser.CanParse
PlainCanParse(line) == Len(TrimSpace(line)) > 0

\* the lines the parser is applied to, put together from their parts:
\* leading space, "[", a date and time, "]", a space, a level word, a
\* joiner and a text; each part may be missing
NoStamp == [text |-> << >>, time |-> << 0, 0 >>, valid |-> FALSE]

StampParts ==
  { [text |-> << "2", "0", "2", "4", "-", "0", "1", "-", "2", "0", " ", "1", "5", ":", "0", "4", ":", "0", "5" >>,
     time |-> << 20240120, 150405 >>, valid |-> TRUE],
    [text |-> << "2", "0", "2", "4", "/", "0", "1", "/", "2", "0", " ", "1", "5", ":", "0", "4", ":", "0", "5" >>,
     time |-> << 20240120, 150405 >>, valid |-> TRUE],
    [text |-> << "1", "9", "9", "9", "-", "1", "2", "-", "3", "1", "T", "2", "3", ":", "5", "9", ":", "5", "9" >>,
     time |-> << 19991231, 235959 >>, valid |-> TRUE],
    [text |-> << "2", "0", "2", "3", "-", "0", "2", "-", "2", "9", " ", "1", "0", ":", "0", "0", ":", "0", "0" >>,
     time |-> << 0, 0 >>, valid |-> FALSE],
    [text |-> << "2", "0", "2", "4", "-", "0", "1", "-", "2", "0", "_", "1", "5", ":", "0", "4", ":", "0", "5" >>,
     time |-> << 0, 0 >>, valid |-> FALSE],
    NoStamp }

WordParts == { WFATAL, WERROR, WWARN, WWARNING, WINFO, WDEBUG, << "e", "r", "r", "o", "r" >>, << >> }

TextParts ==
  { << " ", "d", "i", "s", "k", " ", "f", "u", "l", "l" >>,
    << "f", "a", "t", "a", "l", " ", "x", " " >>,
    << "x" >>,
    << >> }

LineParts ==
  [lead : { << >>, << " " >> }, open : { << "[" >>, << >> }, stamp : StampParts,
   close : { << "]" >>, << >> }, gap : { << " " >>, << >> }, word : WordParts,
   joiner : { << ":" >>, << " ", "-" >>, << " " >>, << >> }, text : TextParts]

LineOf(p) ==
  p.lead \o p.open \o p.stamp.text \o p.close \o p.gap \o p.word \o p.joiner \o p.text

\* PlainTextLogParser.CanParse is called with the line
PlainCanParseCall ==
  /\ calc.op = "parse"
  /\ calc.can = "none"
  /\ calc' = [calc EXCEPT !.can = Verdict(PlainCanParse(calc.line))]
  /\ UNCHANGED << aggVars, dirVars, wfile, watch, sink >>

\* PlainTextLogParser.Parse is called with the line
PlainParseCall ==
  /\ calc.op = "parse"
  /\ calc.result.err = "none"
  /\ calc' = [calc EXCEPT !.result = PlainTextParse(calc.line, "w.log")]
  /\ UNCHANGED << aggVars, dirVars, wfile, watch, sink >>

InitParse ==
  /\ InitAggregator
  /\ InitDirVars(InertRun, "idle")
  /\ \E p \in LineParts :
       calc = [op |-> "parse", parts |-> p, line |-> LineOf(p), can |-> "none",
               result |-> [err |-> "none"]]
  /\ wfile = << >>
  /\ watch = NoWatch
  /\ sink = << >>

NextParse == PlainCanParseCall \/ PlainParseCall

SpecParse == InitParse /\ [][NextParse]_vars

\* ---------------------------------------------------------------------
\* The select loop of Watch with every case of it: the file holds and
\* receives lines of one kind, nothing is filtered, and fsnotify also
\* reports operations other than writes and errors of its own.
LoopLine == Line(2, ERROR, << "o", "k" >>)

InitLoop ==
  /\ InitAggregator
  /\ InitDirVars(InertRun, "idle")
  /\ calc = NoCalc
  /\ \E ls \in SeqsUpTo({ LoopLine }, MaxInitial) :
       wfile = [bytes |-> Content(ls), lines |-> ls, written |-> Len(ls),
                shrunk |-> FALSE]
  /\ \E c \in { k \in WatchConfigs : k.MinLevel = DEBUG /\ k.Pattern = << >> } :
       watch = [pc |-> "open", cfg |-> c, lastOffset |-> 0, pos |-> 0, size |-> 0,
                events |-> {}, tick |-> FALSE, fserr |-> FALSE,
                cancelled |-> FALSE, err |-> "none",
                opened |-> << >>, hasRead |-> FALSE, reset |-> FALSE]
  /\ sink = << >>

NextLoop ==
  \/ WatchOpen
  \/ WatchStart
  \/ OnEvent
  \/ OnTick
  \/ OnError
  \/ OnCancel
  \/ ReadStat
  \/ ReadScan
  \/ Cancel
  \/ AppendLine(LoopLine)
  \/ Truncate
  \/ Chmod
  \/ Tick
  \/ FsError

SpecLoop == InitLoop /\ [][NextLoop]_vars

\* the goroutine inside Watch is scheduled: a call in progress goes on.  A
\* select with several ready cases picks one pseudo-randomly, so a case that
\* is ready every time the loop comes round is picked in the end.
SpecLoopFair ==
  /\ SpecLoop
  /\ WF_vars(WatchOpen \/ WatchStart \/ ReadStat \/ ReadScan)
  /\ SF_vars(OnCancel)

\* ===================================================== properties: SpecAgg
Occ(seq, x) == Cardinality({ i \in 1..Len(seq) : seq[i] = x })

\* every caller's Add / AddBatch has returned
AllCallsReturned == \A c \in Callers : frame[c].pc = "ret"

\* the records handed in by the callers: (caller, position in its batch)
InputPositions ==
  { p \in Callers \X (1..Max(MaxBatch, 1)) : p[2] <= Len(frame[p[1]].batch) }

InputAt(p) == frame[p[1]].batch[p[2]]

\* C1: once N concurrent AddBatch calls of M records each have returned, the
\* aggregator holds exactly the N*M records handed in: the total is N*M and
\* each per-level and per-source count is the number of input records with
\* that level / source (no lost update, no double count).
C1_AddBatchCountsAllInputs ==
  AllCallsReturned =>
    /\ Len(entries) = Cardinality(InputPositions)
    /\ stats.TotalEntries = Cardinality(InputPositions)
    /\ \A l \in Levels :
         stats.LevelCounts[l] = Cardinality({ p \in InputPositions : InputAt(p).level = l })
    /\ \A src \in Sources :
         stats.SourceCounts[src] = Cardinality({ p \in InputPositions : InputAt(p).source = src })
    /\ \A m \in 0..MaxBatch :
         (\A c \in Callers : Len(frame[c].batch) = m) => stats.TotalEntries = NumCallers * m

C1_Witness ==
  /\ AllCallsReturned
  /\ \A c \in Callers : frame[c].op = "AddBatch" /\ Len(frame[c].batch) = MaxBatch
  /\ \E c, d \in Callers : frame[c].batch /= frame[d].batch
  /\ stats.TotalEntries = NumCallers * MaxBatch

\* no Add / AddBatch call is between a.mu.Lock() and a.mu.Unlock()
NoneInCriticalSection ==
  \A t \in Threads : frame[t].pc \in {"none", "lock", "ret"}

StatsMatchEntries ==
  /\ stats.TotalEntries = Len(entries)
  /\ \A l \in Levels :
       stats.LevelCounts[l] = Cardinality({ i \in 1..Len(entries) : entries[i].level = l })
  /\ \A src \in Sources :
       stats.SourceCounts[src] = Cardinality({ i \in 1..Len(entries) : entries[i].source = src })

\* C2: whenever no Add / AddBatch call is inside its critical section, the
\* statistics agree with the stored records: TotalEntries is the number of
\* stored records and every level / source count is the number of stored
\* records with that level / source.
C2_StatsConsistentWithRecords == NoneInCriticalSection => StatsMatchEntries

C2_Witness ==
  /\ NoneInCriticalSection
  /\ Len(entries) >= 2
  /\ \E c, d \in Callers : frame[c].pc = "ret" /\ frame[d].pc = "lock"

\* ===================================================== properties: SpecDir
\* AnalyzeDirectory returned after running the pool (nil or aggregate error)
PoolReturned == main.pc = "returned" /\ main.ret.kind \in {"nil", "aggregate"}

\* sequential reference: the lines of f the scanner delivers (up to the first
\* line over the maximum) and the records of f that pass the filter
ScanLimit(f) ==
  LET long == { i \in 1..Len(FileLines(f)) : FileLines(f)[i].kind = "toolong" }
  IN IF long = {} THEN Len(FileLines(f))
     ELSE (CHOOSE i \in long : \A j \in long : i <= j) - 1

FileFails(f) == OpenFails(f) \/ ScanLimit(f) < Len(FileLines(f))

KeptLines(f, cfg) ==
  IF OpenFails(f) THEN {}
  ELSE { i \in 1..ScanLimit(f) :
           /\ CanParseLine(FileLines(f)[i])
           /\ shouldInclude(cfg, ParseLine(FileLines(f)[i], f)) }

\* (file, line) of every record a run over the directory must aggregate
ExpectedRecords ==
  UNION { { << run.dir.files[k], i >> : i \in KeptLines(run.dir.files[k], run.config) } :
            k \in 1..Len(run.dir.files) }

ExpectedAt(p) == ParseLine(FileLines(p[1])[p[2]], p[1])

\* C3: for a fixed file set the final statistics do not depend on the worker
\* count or on the scheduling of the workers: the total and the per-level
\* counts are those of the records of the files, whatever config.Workers is.
C3_StatsIndependentOfWorkers ==
  PoolReturned =>
    /\ stats.TotalEntries = Cardinality(ExpectedRecords)
    /\ \A l \in Levels :
         stats.LevelCounts[l] = Cardinality({ p \in ExpectedRecords : ExpectedAt(p).level = l })

C3_Witness ==
  /\ PoolReturned
  /\ main.numWorkers = MaxWorkers
  /\ Len(main.files) = 2
  /\ stats.TotalEntries >= 3
  /\ stats.LevelCounts[INFO] >= 1 /\ stats.LevelCounts[ERROR] >= 2

\* C4: every enumerated path is taken from the queue by exactly one worker
\* and analyzed exactly once, for any worker count; the queue is filled and
\* closed before a worker starts, and nothing is put back.
C4_EachFileAnalyzedOnce ==
  /\ (\E w \in Workers : worker[w].pc /= "unborn") => fileChan.closed
  /\ main.pc \notin {"start", "fill"} =>
       \A f \in FileNames : audit.runs[f] + Occ(fileChan.buf, f) = Occ(main.files, f)
  /\ PoolReturned =>
       /\ fileChan.buf = << >>
       /\ \A f \in FileNames : audit.runs[f] = Occ(run.dir.files, f)
       /\ \A k \in 1..Len(run.dir.files) : audit.outcome[run.dir.files[k]] /= "none"

C4_Witness ==
  /\ PoolReturned
  /\ main.numWorkers > Len(main.files)
  /\ Len(main.files) >= 2
  /\ \A k \in 1..Len(main.files) : audit.runs[main.files[k]] = 1

NoWorkerActive ==
  /\ \A w \in Workers : worker[w].pc \in {"unborn", "exit"} /\ frame[w].pc = "none"
  /\ a_mu = {}
  /\ s_mu = {}

IsSorted(s) == \A i \in 1..(Len(s) - 1) : s[i].ts <= s[i + 1].ts

\* C5: AnalyzeDirectory returns only after every worker has finished: when it
\* returns no worker is active, the records are in timestamp order and the
\* duration is recorded; after the return the records and the statistics
\* handed to the reporter do not change any more.
C5_StableAtReturn ==
  [][ /\ main'.pc = "returned" =>
           /\ NoWorkerActive'
           /\ IsSorted(entries')
           /\ main'.ret.kind \in {"nil", "aggregate"} => stats'.ProcessingTime > 0
      /\ main.pc = "returned" => entries' = entries /\ stats' = stats ]_vars

C5_Witness ==
  /\ main.pc = "returned"
  /\ main.hpc /= "analyzing"
  /\ main.numWorkers >= 2
  /\ Len(entries) >= 3
  /\ entries[1].source /= entries[2].source

\* C6: AnalyzeDirectory terminates for every file set and worker count: no
\* worker blocks on another worker or on sending a per-file error, the
\* workers exit once the closed queue is drained, and the join completes.
C6_DirectoryTerminates ==
  /\ [](\A w \in Workers : worker[w].pc = "senderr" => Len(errChan.buf) < errChan.cap)
  /\ <>(main.pc = "returned")

C6_Witness ==
  /\ main.pc = "returned"
  /\ Len(main.files) >= 2
  /\ main.numWorkers >= 2
  /\ \A k \in 1..Len(main.files) : audit.outcome[main.files[k]] = "err"

\* the records of file f in the aggregator are exactly the ones f yields
LineRecord(f, i) == ParseLine(FileLines(f)[i], f)

FileRecordsStored(f) ==
  /\ \A i \in KeptLines(f, run.config) :
       Occ(entries, LineRecord(f, i))
         = Cardinality({ k \in KeptLines(f, run.config) : LineRecord(f, k) = LineRecord(f, i) })
  /\ Cardinality({ j \in 1..Len(entries) : entries[j].source = f })
       = Cardinality(KeptLines(f, run.config))

\* C7: a failing file cancels nothing: the worker that failed keeps pulling
\* files until the queue is drained, and when AnalyzeDirectory returns every
\* other file has been analyzed and its accepted records are aggregated.
C7_FailureCancelsNothing ==
  /\ \A w \in Workers :
       worker[w].failed /\ worker[w].pc \in {"done", "exit"} => fileChan.buf = << >>
  /\ PoolReturned =>
       \A k \in 1..Len(run.dir.files) :
         LET f == run.dir.files[k]
         IN /\ audit.runs[f] = 1
            /\ audit.outcome[f] /= "err" =>
                 /\ audit.outcome[f] = "ok"
                 /\ ~FileFails(f)
                 /\ FileRecordsStored(f)

C7_Witness ==
  /\ PoolReturned
  /\ main.numWorkers = 1
  /\ run.dir.files = << "b.log", "c.log" >>
  /\ worker[1].failed
  /\ audit.outcome["c.log"] = "ok"
  /\ Len(entries) = 1

FailedFiles == { f \in FileNames : audit.outcome[f] = "err" }

\* C8: AnalyzeDirectory returns the aggregate error iff at least one file
\* failed; its count is the number of failed files; it is raised only after
\* all workers have finished.
C8_AggregateErrorIffFailure ==
  main.pc = "returned" =>
    /\ main.ret.kind = "aggregate" <=> FailedFiles /= {}
    /\ main.ret.kind = "aggregate" =>
         /\ main.ret.count = Cardinality(FailedFiles)
         /\ FailedFiles = { f \in FileNames : FileFails(f) /\ Occ(run.dir.files, f) > 0 }
         /\ NoWorkerActive
    /\ main.ret.kind = "nil" => \A k \in 1..Len(run.dir.files) : ~FileFails(run.dir.files[k])

C8_Witness ==
  /\ main.pc = "returned"
  /\ main.ret = Error("aggregate", 2)
  /\ \E f \in FileNames : audit.outcome[f] = "ok"

\* C9: when some files fail and others succeed, the run still reaches report
\* generation with the partial results (best-effort completion).
C9_PartialResultsReported ==
  ( /\ main.hpc \in {"exit1", "reported"}
    /\ FailedFiles /= {}
    /\ \E f \in FileNames : audit.outcome[f] = "ok" )
  => /\ main.hpc = "reported"
     /\ main.report /= << >>

\* C10: a directory without matching files makes AnalyzeDirectory fail with
\* the no-files-found error before any work starts: no channel is made, no
\* worker is launched, no file is analyzed, and the aggregator is untouched.
C10_NoFilesFailsBeforeWork ==
  (run.dir.exists /\ run.dir.files = << >> /\ main.pc /= "start") =>
    /\ main.pc = "returned"
    /\ main.ret = Error("nofiles", 0)
    /\ \A w \in Workers : worker[w] = IdleWorker
    /\ wg = 0
    /\ ~fileChan.closed
    /\ \A f \in FileNames : audit.runs[f] = 0
    /\ entries = << >>
    /\ stats = NewStatistics
    /\ frame = [t \in Threads |-> NoFrame]

C10_Witness ==
  /\ run.dir.exists
  /\ run.dir.files = << >>
  /\ main.ret.kind = "nofiles"
  /\ main.hpc = "exit1"


\* ------------------------------------------------- skipped lines (SpecDir)
\* the record a structured or free-text line stands for
RecordOf(l, f) == LogEntry(l.ts, l.level, l.message, f, l.raw)

\* the lines of f that parse, and those of them that pass the filter
ParseableLines(f) ==
  { i \in 1..Len(FileLines(f)) : FileLines(f)[i].kind \in {"entry", "text"} }

UnparsableLines(f) ==
  { i \in 1..Len(FileLines(f)) : FileLines(f)[i].kind \in {"blank", "spaces", "malformed"} }

AcceptedLines(f, cfg) ==
  { i \in ParseableLines(f) : shouldInclude(cfg, RecordOf(FileLines(f)[i], f)) }

\* f can be opened and every line of it fits the scanner's buffer
Readable(f) ==
  /\ ~OpenFails(f)
  /\ \A i \in 1..Len(FileLines(f)) : FileLines(f)[i].kind /= "toolong"

StoredFrom(f) == { j \in 1..Len(entries) : entries[j].source = f }

\* C11: a line that fails to parse (blank, white space only, or a malformed
\* structured line) is skipped and never aborts the file: AnalyzeFile of a
\* readable file never returns an error, and when the run has returned the
\* file has contributed one record per parseable line that passes the filter
\* (the unparsable lines contribute none, the lines after them are read).
C11_UnparsableLineSkipped ==
  \A k \in 1..Len(run.dir.files) :
    LET f == run.dir.files[k]
    IN Readable(f) =>
         /\ audit.outcome[f] /= "err"
         /\ \A w \in Workers : worker[w].file = f => worker[w].pc /= "senderr"
         /\ PoolReturned =>
              /\ audit.outcome[f] = "ok"
              /\ Cardinality(StoredFrom(f)) = Cardinality(AcceptedLines(f, run.config))
              /\ \A i \in AcceptedLines(f, run.config) :
                   \E j \in StoredFrom(f) : entries[j] = RecordOf(FileLines(f)[i], f)

C11_Witness ==
  /\ PoolReturned
  /\ main.ret.kind = "nil"
  /\ run.dir.files = << "a.log", "c.log" >>
  /\ UnparsableLines("a.log") /= {} /\ UnparsableLines("c.log") /= {}
  /\ Cardinality(StoredFrom("a.log")) = 3
  /\ Cardinality(StoredFrom("c.log")) = 1
  /\ Len(entries) = Len(FileLines("a.log")) + Len(FileLines("c.log")) - 3

\* ------------------------------------------------- the filter (SpecDir)
\* p occurs in s as a contiguous run of characters
HasSubstring(s, p) ==
  \E i \in 1..(Len(s) - Len(p) + 1) : SubSeq(s, i, i + Len(p) - 1) = p

\* the configured filter as stated: minimum level, pattern, time window
PassesFilter(cfg, e) ==
  /\ cfg.Level = UNKNOWN \/ e.level >= cfg.Level
  /\ cfg.Pattern = << >> \/ HasSubstring(e.message, cfg.Pattern)
                         \/ HasSubstring(e.raw, cfg.Pattern)
  /\ cfg.StartTime = 0 \/ e.ts >= cfg.StartTime
  /\ cfg.EndTime = 0 \/ e.ts <= cfg.EndTime

\* the lines of f the scanner delivers and the parser turns into a record
DeliveredRecords(f) ==
  IF OpenFails(f) THEN {}
  ELSE { RecordOf(FileLines(f)[i], f) : i \in { k \in ParseableLines(f) : k <= ScanLimit(f) } }

\* C12: every record that reaches the aggregator satisfies the configured
\* filter (minimum level, pattern, time window), and so does every record a
\* worker holds in its local buffer or has handed to AddBatch: the decision
\* is taken per line, before aggregation.  When the run has returned, a
\* parsed record is stored iff it satisfies the filter.
C12_StoredRecordsPassFilter ==
  /\ \A j \in 1..Len(entries) : PassesFilter(run.config, entries[j])
  /\ \A w \in Workers :
       /\ \A j \in 1..Len(worker[w].buf) : PassesFilter(run.config, worker[w].buf[j])
       /\ \A j \in 1..Len(frame[w].batch) : PassesFilter(run.config, frame[w].batch[j])
  /\ PoolReturned =>
       \A k \in 1..Len(run.dir.files) :
         \A e \in DeliveredRecords(run.dir.files[k]) :
           PassesFilter(run.config, e) <=> Occ(entries, e) = 1

C12_Witness ==
  /\ PoolReturned
  /\ run.config.Level \notin {DEBUG, UNKNOWN}
  /\ run.config.Pattern /= << >>
  /\ run.config.StartTime /= 0 /\ run.config.EndTime /= 0
  /\ run.dir.files = << "a.log", "c.log" >>
  /\ Len(entries) = 1
  /\ Cardinality(DeliveredRecords("a.log") \cup DeliveredRecords("c.log")) = 4

MinTs(s) == CHOOSE m \in { s[i].ts : i \in 1..Len(s) } : \A i \in 1..Len(s) : m <= s[i].ts
MaxTs(s) == CHOOSE m \in { s[i].ts : i \in 1..Len(s) } : \A i \in 1..Len(s) : m >= s[i].ts

\* C14: whenever no Add / AddBatch call is inside its critical section and at
\* least one record has been added, FirstTimestamp is the minimum and
\* LastTimestamp the maximum of the timestamps of the records added so far,
\* whatever the order in which they arrived.
C14_TimestampBounds ==
  (NoneInCriticalSection /\ Len(entries) >= 1) =>
    /\ stats.TotalEntries = Len(entries)
    /\ stats.FirstTimestamp = MinTs(entries)
    /\ stats.LastTimestamp = MaxTs(entries)

\* ===================================================== properties: SpecOps
\* the step in which thread t's SortByTime sorts the slice
SortStep(t) ==
  /\ frame[t].op = "SortByTime"
  /\ frame[t].pc = "body"
  /\ frame'[t].pc = "unlock"

IsPermutation(a, b) ==
  /\ Len(a) = Len(b)
  /\ \A i \in 1..Len(a) : Occ(a, a[i]) = Occ(b, a[i])

\* C15: SortByTime leaves the stored records in non-decreasing timestamp
\* order, and they are a permutation of the records stored before the call:
\* nothing is added, dropped or duplicated.
C15_SortedPermutation ==
  [][ /\ SortStep(Writer) => IsSorted(entries') /\ IsPermutation(entries, entries')
      /\ (frame[Writer].op = "SortByTime" /\ frame[Writer].pc = "unlock")
           => entries' = entries /\ IsSorted(entries) ]_vars

C15_Witness ==
  /\ frame[Writer].op = "SortByTime"
  /\ frame[Writer].pc = "ret"
  /\ Len(entries) = MaxEntries
  /\ IsSorted(entries)
  /\ entries[1].ts < entries[Len(entries)].ts
  /\ ~IsSorted(frame[Reader].result.items)
  /\ IsPermutation(frame[Reader].result.items, entries)

\* the stable sort of s: every record is placed behind the records before it
\* whose timestamp is not later
StableInsert(r, x) ==
  LET k == Cardinality({ j \in 1..Len(r) : r[j].ts <= x.ts })
  IN SubSeq(r, 1, k) \o << x >> \o SubSeq(r, k + 1, Len(r))

RECURSIVE StableSort(_)
StableSort(s) ==
  IF s = << >> THEN << >>
  ELSE StableInsert(StableSort(SubSeq(s, 1, Len(s) - 1)), s[Len(s)])

\* C16: SortByTime is stable and idempotent: records with equal timestamps
\* keep the relative order they had before the sort, so sorting a collection
\* that is already sorted leaves the sequence of records unchanged.
C16_StableIdempotent ==
  [][ SortStep(Writer) =>
        /\ entries' = StableSort(entries)
        /\ IsSorted(entries) => entries' = entries ]_vars

\* the step in which thread t's GetEntries copies the slice, and the states
\* in which t holds the slice GetEntries made
CopyStep(t) ==
  /\ frame[t].op = "GetEntries"
  /\ frame[t].pc = "body"
  /\ frame'[t].pc = "unlock"

HoldsResult(t) == frame[t].op = "GetEntries" /\ frame[t].pc \in {"unlock", "ret"}

\* C17: GetEntries returns a copy taken atomically with respect to writers:
\* at the moment of the copy no Add / AddBatch / SortByTime / Clear of another
\* goroutine is under way (the copy never holds part of a batch), the copy is
\* the record list of that moment, and nothing added, sorted or cleared
\* afterwards changes the sequence already returned.
C17_GetEntriesAtomicCopy ==
  [][ /\ CopyStep(Reader) =>
           /\ frame'[Reader].result.items = entries
           /\ \A u \in Threads \ {Reader} : frame[u].pc \in {"none", "lock", "enter", "ret"}
      /\ HoldsResult(Reader) =>
           frame'[Reader].result.items = frame[Reader].result.items ]_vars

C17_Witness ==
  /\ frame[Reader].pc = "ret"
  /\ frame[Reader].op = "GetEntries"
  /\ Len(frame[Reader].result.items) = 2
  /\ ~IsSorted(frame[Reader].result.items)
  /\ Len(entries) = MaxEntries
  /\ IsSorted(entries)
  /\ frame[Writer].op = "Clear"
  /\ frame[Writer].pc = "enter"

\* ------------------------------------------- memory per file (SpecDir)
\* the records of file f held in memory: those the aggregator has stored and
\* those in the local buffer of the worker that is scanning f
BufferedFor(f) ==
  { << w, j >> \in Workers \X (1..BatchSize) :
      worker[w].file = f /\ worker[w].pc = "scan" /\ j <= Len(worker[w].buf) }

HeldFor(f) == Cardinality(StoredFrom(f)) + Cardinality(BufferedFor(f))

\* C18: while a file is analyzed the records held in memory on its behalf
\* are bounded by the batch size, however many lines the file has.
C18_MemoryBoundedByBatch ==
  \A f \in FileNames : HeldFor(f) <= BatchSize

\* =================================================== properties: SpecWatch
\* Watch has passed its start-up and entered the loop
Watching == watch.pc \in {"loop", "stat", "scan"} \/ watch.err = "nil"

\* what the display must show for the lines ls: one entry per structured or
\* free-text line that passes the minimum level and the pattern, in order
Passes(cfg, l) ==
  /\ l.kind \in {"entry", "text"}
  /\ cfg.MinLevel = UNKNOWN \/ l.level >= cfg.MinLevel
  /\ cfg.Pattern = << >> \/ HasSubstring(l.message, cfg.Pattern)
                         \/ HasSubstring(l.raw, cfg.Pattern)

RECURSIVE Shown(_, _)
Shown(cfg, ls) ==
  IF ls = << >> THEN << >>
  ELSE (IF Passes(cfg, Head(ls))
          THEN << [time |-> Head(ls).ts, level |-> Head(ls).level,
                   message |-> Head(ls).message] >>
        ELSE << >>) \o Shown(cfg, Tail(ls))

IsPrefix(a, b) == Len(a) <= Len(b) /\ SubSeq(b, 1, Len(a)) = a

\* the lines written after Watch started
AppendedLines == SubSeq(wfile.lines, Len(watch.opened) + 1, Len(wfile.lines))

\* C19: without ShowAll the read offset Watch starts from is the size of the
\* file at open time and, while the file only grows, nothing is displayed
\* for a line that was in the file at that moment: the display holds entries
\* of appended lines only.  With ShowAll reading starts at offset 0 and the
\* first read displays the lines that were in the file.
C19_StartsAtEndUnlessShowAll ==
  (Watching /\ ~wfile.shrunk) =>
    /\ ~watch.hasRead =>
         /\ watch.lastOffset = (IF watch.cfg.ShowAll THEN 0 ELSE Len(Content(watch.opened)))
         /\ watch.pos = watch.lastOffset
         /\ sink = << >>
    /\ ~watch.cfg.ShowAll => IsPrefix(sink, Shown(watch.cfg, AppendedLines))
    /\ (watch.cfg.ShowAll /\ watch.hasRead) =>
         IsPrefix(Shown(watch.cfg, watch.opened), sink)

C19_Witness ==
  /\ watch.pc = "loop"
  /\ ~watch.cfg.ShowAll
  /\ ~wfile.shrunk
  /\ watch.hasRead
  /\ Len(watch.opened) = 1
  /\ Passes(watch.cfg, watch.opened[1])
  /\ Len(wfile.lines) = 2
  /\ Passes(watch.cfg, wfile.lines[2])
  /\ Len(sink) = 1

\* ---- C20 ----
\* a step of readNewLines that runs the scanner and stores the offset
ReadStep == watch.pc = "scan" /\ watch'.pc = "loop"

\* how many lines of the file lie before the position of the file handle
ConsumedLines ==
  CHOOSE k \in 0..Len(wfile.lines) : Len(Content(SubSeq(wfile.lines, 1, k))) = watch.pos

\* the lines appended since the previous read
NewLines == SubSeq(wfile.lines, ConsumedLines + 1, Len(wfile.lines))

\* the records of one read step: one per appended line that parses and passes
\* the filters, in file order
C20_EmitsAppendedLines ==
  [][(ReadStep /\ ~wfile.shrunk) => sink' = sink \o Shown(watch.cfg, NewLines)]_vars

\* C20: for a file that only grows, every read step emits exactly the records
\* of the lines appended since the previous read that parse and pass the
\* filters, in file order, and leaves the stored offset at the previous offset
\* plus the number of appended bytes
C20_ReadEmitsAppendedAndAdvances ==
  [][(ReadStep /\ ~wfile.shrunk) =>
       /\ sink' = sink \o Shown(watch.cfg, NewLines)
       /\ watch'.lastOffset = watch.lastOffset + Len(Content(NewLines))]_vars

\* ---- C21 ----
\* the step of readNewLines that queries the size
StatStep == watch.pc = "stat" /\ watch'.pc = "scan"

\* C21: when the size found at a read is smaller than the stored offset, the
\* offset is reset to 0 and reading restarts at the first byte; the read then
\* displays the accepted lines of the whole content of the file and ends with
\* the offset at the size found
C21_TruncationRestartsAtZero ==
  [][/\ (StatStep /\ Len(wfile.bytes) < watch.lastOffset) =>
          (watch'.lastOffset = 0 /\ watch'.pos = 0 /\ watch'.reset)
     /\ (ReadStep /\ watch.reset) =>
          /\ sink' = sink \o Shown(watch.cfg, wfile.lines)
          /\ watch'.lastOffset = watch.size]_vars

C21_Witness ==
  /\ watch.pc = "loop"
  /\ wfile.shrunk
  /\ watch.hasRead
  /\ wfile.lines /= << >>
  /\ Passes(watch.cfg, wfile.lines[1])
  /\ watch.lastOffset = Len(wfile.bytes)
  /\ sink /= << >>
  /\ sink[Len(sink)].message = wfile.lines[1].message
  /\ ~watch.cfg.ShowAll
  /\ Len(watch.opened) = 1

\* ---- C22 ----
\* index of the last line that is not to be displayed: the lines in the file
\* when Watch started, none with ShowAll
FirstShown == IF watch.cfg.ShowAll THEN 0 ELSE Len(watch.opened)

\* C22: while the file only grows, whatever the order of notifications, ticks
\* and appends, the display holds exactly one entry for every accepted line
\* the reads have passed, in file order (none twice, none left out), and a
\* read passes every line that is in the file when it scans
C22_EachLineExactlyOnce ==
  /\ [](~wfile.shrunk =>
          sink = Shown(watch.cfg, SubSeq(wfile.lines, FirstShown + 1, ConsumedLines)))
  /\ [][(ReadStep /\ ~wfile.shrunk) => watch'.pos = Len(wfile.bytes)]_vars

\* a second read is under way after an append whose line the first read has
\* displayed
C22_Witness ==
  /\ watch.pc = "scan"
  /\ watch.hasRead
  /\ ~wfile.shrunk
  /\ ~watch.cfg.ShowAll
  /\ Len(AppendedLines) = 1
  /\ Passes(watch.cfg, AppendedLines[1])
  /\ Len(sink) = 1
  /\ watch.pos = Len(wfile.bytes)

\* ---- C23 ----
\* the select of the loop takes a notification of the given operation
Takes(op) == watch.pc = "loop" /\ op \in watch.events /\ op \notin watch'.events

\* the select takes a tick, the error of the notification subsystem, or the
\* cancellation
TakesTick == watch.pc = "loop" /\ watch.tick /\ ~watch'.tick
TakesError == watch.pc = "loop" /\ watch.fserr /\ ~watch'.fserr
TakesCancel == watch.pc = "loop" /\ watch'.pc = "returned" /\ watch'.err = "nil"

\* a trigger of the loop is serviced in this step
Serviced == (\E op \in Ops : Takes(op)) \/ TakesTick \/ TakesError \/ TakesCancel

\* readNewLines is called
ReadInvoked == watch.pc = "loop" /\ watch'.pc = "stat"

\* C23 as stated: every change notification and every tick that the loop
\* services invokes the read, and cancellation is the only trigger that is
\* serviced without a read
C23_EveryTriggerReads ==
  [][/\ ((\E op \in Ops : Takes(op)) \/ TakesTick) => ReadInvoked
     /\ (Serviced /\ ~ReadInvoked) => TakesCancel]_vars

\* C23 amended: a notification of a write and a tick invoke the read; a
\* notification of another operation is dropped without a read; the
\* triggers serviced without a read are those notifications, the error of
\* the notification subsystem and the cancellation
C23_WriteAndTickRead ==
  [][/\ (Takes("write") \/ TakesTick) => ReadInvoked
     /\ Takes("chmod") =>
          /\ watch'.pc = "loop"
          /\ watch'.pos = watch.pos /\ watch'.lastOffset = watch.lastOffset
          /\ sink' = sink
     /\ (Serviced /\ ~ReadInvoked) => (Takes("chmod") \/ TakesError \/ TakesCancel)
     /\ ReadInvoked => (Takes("write") \/ TakesTick)]_vars

\* the loop waits and a notification of an operation other than a write is
\* the only thing pending
C23_Witness ==
  /\ watch.pc = "loop"
  /\ watch.events = { "chmod" }
  /\ ~watch.tick /\ ~watch.fserr /\ ~watch.cancelled
  /\ Len(wfile.bytes) > watch.pos

\* ---- C24 ----
\* C24: once cancellation has been signalled the loop services no other
\* trigger before it, so no read is started after the signal even when a
\* notification or a tick is pending too; a read that is under way is not
\* interrupted
C24_CancellationServicedFirst ==
  [][/\ (watch.cancelled /\ Serviced) => TakesCancel
     /\ watch.cancelled => ~ReadInvoked
     /\ watch.pc \in { "stat", "scan" } => watch'.pc /= "returned"]_vars

\* the part of C24 that holds: a read that is under way runs to its end
ReadNotInterrupted ==
  [][watch.pc \in { "stat", "scan" } => watch'.pc /= "returned"]_vars

\* ---- C25 ----
\* C25: Watch returns without an error only from the loop and only when
\* cancellation has been signalled, and once Watch has returned nothing of
\* the watcher changes: no read of the file and no entry on the display
C25_StoppedIsTerminal ==
  [][/\ (watch.pc /= "returned" /\ watch'.pc = "returned" /\ watch'.err = "nil") =>
          (watch.pc = "loop" /\ watch.cancelled)
     /\ watch.pc = "returned" => (watch' = watch /\ sink' = sink)]_vars

\* Watch has returned after cancellation, having displayed something, and
\* the file holds a line written since that no read has passed
C25_Witness ==
  /\ watch.pc = "returned"
  /\ watch.err = "nil"
  /\ watch.cancelled
  /\ sink /= << >>
  /\ ~wfile.shrunk
  /\ Len(wfile.bytes) > watch.pos

\* ---- C26 ----
\* C26: an error of the notification subsystem that the loop takes ends
\* Watch, which returns that error; when the file cannot be opened Watch
\* returns the open error without entering the loop, so that session reads
\* nothing and displays nothing
C26_ErrorsEndTheSession ==
  /\ [][TakesError => (watch'.pc = "returned" /\ watch'.err = "watcher")]_vars
  /\ [][(watch.pc = "open" /\ ~watch.cfg.Readable /\ watch'.pc /= "open") =>
          (watch'.pc = "returned" /\ watch'.err = "open")]_vars
  /\ [](~watch.cfg.Readable =>
          /\ watch.pc \in { "open", "returned" }
          /\ ~watch.hasRead /\ watch.pos = 0 /\ watch.events = {} /\ ~watch.tick
          /\ sink = << >>)

\* Watch has returned the error of the notification subsystem after it had
\* read and displayed a line
C26_Witness ==
  /\ watch.pc = "returned"
  /\ watch.err = "watcher"
  /\ watch.hasRead
  /\ sink /= << >>

\* ---- C27 ----
\* both decisions about the entry have been taken
Decided == calc.op = "accept" /\ calc.watcher /= "none" /\ calc.combined /= "none"

\* C27 as stated: for every entry, every minimum level of LogLevel and every
\* pattern, processLine displays the entry iff
\* CombineFilters(MinLevelFilter(min), PatternFilter(pattern)) accepts it
C27_WatcherMatchesCombinedFilters ==
  Decided => (calc.watcher = calc.combined)

\* C27 amended: the two agree for every minimum level from DEBUG to FATAL;
\* with the minimum level UNKNOWN the watcher applies no level test and
\* displays the entry iff PatternFilter(pattern) accepts it
C27_WatcherMatchesUnlessUnknown ==
  Decided =>
    /\ calc.cfg.MinLevel /= UNKNOWN => (calc.watcher = calc.combined)
    /\ calc.cfg.MinLevel = UNKNOWN =>
         (calc.watcher = Verdict(PatternFilter(calc.cfg.Pattern, calc.entry)))

\* an ERROR entry matching the pattern, minimum level UNKNOWN: displayed by
\* the watcher, rejected by the combined filters
C27_Witness ==
  /\ Decided
  /\ calc.cfg.MinLevel = UNKNOWN
  /\ calc.entry.level = ERROR
  /\ calc.cfg.Pattern = << "o", "k" >>
  /\ calc.watcher = "yes"
  /\ calc.combined = "no"

\* ---- C28 ----
\* C28: CanParse of the free-text parser returns true for every line, the
\* empty line and lines of spaces included
C28_PlainCanParseAlwaysTrue ==
  (calc.op = "parse" /\ calc.can /= "none") => calc.can = "yes"

\* ---- C29 ----
\* the line has the form "[" date and time "]" level word ":" text
BracketedForm ==
  /\ calc.op = "parse"
  /\ calc.parts.open = << "[" >>
  /\ calc.parts.stamp.valid
  /\ calc.parts.close = << "]" >>
  /\ calc.parts.word \in { WFATAL, WERROR, WWARN, WWARNING, WINFO, WDEBUG }
  /\ calc.parts.joiner = << ":" >>

\* the severity a level word names
Severity(w) ==
  CASE w = WFATAL -> FATAL
    [] w = WERROR -> ERROR
    [] w \in { WWARN, WWARNING } -> WARN
    [] w = WINFO -> INFO
    [] w = WDEBUG -> DEBUG

\* C29: for a line of the form "[" 19-character date and time "]" level
\* word ":" text the free-text parser returns a record with that date and
\* time, the severity of the level word, and the text without the spaces
\* around it as message
C29_BracketedLineParsed ==
  (BracketedForm /\ calc.result.err /= "none") =>
    /\ calc.result.err = "nil"
    /\ calc.result.entry.ts = calc.parts.stamp.time
    /\ calc.result.entry.level = Severity(calc.parts.word)
    /\ calc.result.entry.message = TrimSpace(calc.parts.text)
    /\ calc.result.entry.raw = calc.line

\* "[2024-01-20 15:04:05] ERROR: disk full" has been parsed
C29_Witness ==
  /\ BracketedForm
  /\ calc.parts.lead = << >> /\ calc.parts.gap = << " " >>
  /\ calc.parts.stamp.time = << 20240120, 150405 >>
  /\ calc.parts.stamp.text[5] = "-"
  /\ calc.parts.word = WERROR
  /\ calc.parts.text = << " ", "d", "i", "s", "k", " ", "f", "u", "l", "l" >>
  /\ calc.result.err = "nil"
  /\ calc.result.entry.level = ERROR
  /\ calc.result.entry.message = << "d", "i", "s", "k", " ", "f", "u", "l", "l" >>

\* ---- C30 ----
\* the records AnalyzeFile accepts from the first n lines of f, in file order
RECURSIVE AcceptedUpTo(_, _)
AcceptedUpTo(f, n) ==
  IF n = 0 THEN << >>
  ELSE AcceptedUpTo(f, n - 1)
         \o (IF n \in KeptLines(f, run.config) THEN << LineRecord(f, n) >> ELSE << >>)

\* the records of f in the aggregator, in the order they are stored
FromFile(e, f) == e.source = f
StoredSeq(f) == SelectSeq(entries, LAMBDA e : FromFile(e, f))

\* C30: the local buffer never holds more than the batch size; until the
\* final sort the aggregator holds the accepted records of a file in file
\* order, none twice; between two lines the stored records followed by the
\* buffered ones are exactly the accepted records of the lines read; and
\* when AnalyzeFile is past its last flush every accepted record is stored
C30_EveryRecordOnceInOrder ==
  /\ \A w \in Workers : worker[w].pc \in { "scan", "flush", "errcheck" } =>
       Len(worker[w].buf) <= BatchSize
  /\ main.pc /= "returned" =>
       \A k \in 1..Len(run.dir.files) :
         IsPrefix(StoredSeq(run.dir.files[k]),
                  AcceptedUpTo(run.dir.files[k], ScanLimit(run.dir.files[k])))
  /\ \A w \in Workers :
       /\ worker[w].pc = "scan" =>
            /\ Len(worker[w].buf) < BatchSize
            /\ StoredSeq(worker[w].file) \o worker[w].buf
                 = AcceptedUpTo(worker[w].file, worker[w].line - 1)
       /\ (worker[w].pc \in { "addfile", "addfile_upd" }
              \/ (worker[w].pc = "senderr" /\ ~OpenFails(worker[w].file))) =>
            StoredSeq(worker[w].file)
              = AcceptedUpTo(worker[w].file, ScanLimit(worker[w].file))

\* a file with more accepted records than the batch size has been read to
\* its end: one flush in mid-file and the remainder at the end
C30_Witness ==
  \E w \in Workers :
    /\ worker[w].pc = "addfile"
    /\ Len(StoredSeq(worker[w].file)) > BatchSize
    /\ Len(StoredSeq(worker[w].file)) % BatchSize /= 0

\* ---------------------------------------------------------------- C31
\* the files of the run whose AnalyzeFile has returned nil so far
CompletedFiles == { f \in FileNames : audit.outcome[f] = "ok" }

RECURSIVE SizeSum(_)
SizeSum(S) ==
  IF S = {} THEN 0
  ELSE LET f == CHOOSE x \in S : TRUE IN FileSize(f) + SizeSum(S \ {f})

EnumeratedFiles == { main.files[k] : k \in 1..Len(main.files) }

Collected == main.pc \in {"settime", "sort", "returned"}

\* C31: in every state of a directory run, under any interleaving of the
\* workers, FilesProcessed is the number of files whose AnalyzeFile returned
\* without error and BytesProcessed is the sum of the sizes of exactly those
\* files; once the errors are collected those files are the readable ones and
\* FilesProcessed plus the number of per-file errors is the number of
\* enumerated files
C31_CountersMatchCompletedFiles ==
  /\ stats.FilesProcessed = Cardinality(CompletedFiles)
  /\ stats.BytesProcessed = SizeSum(CompletedFiles)
  /\ CompletedFiles \subseteq EnumeratedFiles
  /\ Collected =>
       /\ CompletedFiles = { f \in EnumeratedFiles : Readable(f) }
       /\ stats.FilesProcessed + Len(main.errors) = Len(main.files)

\* a run over three files has returned: one file completed, two failed
C31_Witness ==
  /\ main.pc = "returned"
  /\ Len(main.files) = 3
  /\ stats.FilesProcessed = 1
  /\ Len(main.errors) = 2
  /\ stats.BytesProcessed = 3

\* ---------------------------------------------------------------- C32
\* a worker is stopped in a.mu.Lock() / in s.mu.Lock()
WaitsForAgg(w) == frame[w].pc = "lock" /\ ~AggMuFree

WaitsForStats(w) ==
  /\ IF frame[w].pc = "slock" THEN TRUE ELSE worker[w].pc = "addfile"
  /\ ~StatsMuFree

Blocked(w) == IF WaitsForAgg(w) THEN TRUE ELSE WaitsForStats(w)

\* w waits for a lock that v holds
WaitsOn(w, v) ==
  IF WaitsForAgg(w) THEN v \in a_mu
  ELSE IF WaitsForStats(w) THEN v \in s_mu
  ELSE FALSE

\* a step of a worker inside Add / AddBatch / AddFile
LockedStep == \E w \in Workers : AggStep(w) \/ AddFileUpdate(w)

\* C32: the aggregator lock and the statistics lock cannot deadlock.  Each has
\* at most one holder; a worker that holds both took the aggregator lock
\* first (it is inside AddBatch, at the statistics update); a worker inside
\* AddFile holds the statistics lock only; the holder of the statistics lock
\* never waits for a lock; no two workers wait on each other; and whenever a
\* worker waits for a lock, some worker inside a locked region can step
C32_LocksCannotDeadlock ==
  /\ Cardinality(a_mu) <= 1
  /\ Cardinality(s_mu) <= 1
  /\ \A w \in Workers :
       /\ w \in s_mu => ~Blocked(w)
       /\ (w \in s_mu /\ w \in a_mu) => frame[w].pc = "supd"
       /\ (w \in s_mu /\ w \notin a_mu) => worker[w].pc = "addfile_upd"
       /\ (w \in a_mu /\ frame[w].pc = "slock") => w \notin s_mu
       /\ \A v \in Workers : ~(WaitsOn(w, v) /\ WaitsOn(v, w))
       /\ Blocked(w) => ENABLED LockedStep

\* one worker waits in AddBatch for the statistics lock that the other holds
\* in AddFile
C32_Witness ==
  \E w, v \in Workers :
    /\ w \in a_mu
    /\ frame[w].pc = "slock"
    /\ worker[v].pc = "addfile_upd"
    /\ v \in s_mu
    /\ WaitsOn(w, v)

\* ---------------------------------------------------------------- C33
\* the callers whose Add / AddBatch has taken a.mu, and how many records of
\* its batch each has stored so far
Entered == { t \in Callers : frame[t].pc \in {"load", "store", "slock", "supd", "unlock", "ret"} }

StoredCount(t) ==
  CASE frame[t].pc \in {"load", "store"} -> frame[t].i - 1
    [] frame[t].pc \in {"slock", "supd"} -> frame[t].i
    [] OTHER -> Len(frame[t].batch)

StoredPart(t) == SubSeq(frame[t].batch, 1, StoredCount(t))

RECURSIVE Orders(_)
Orders(S) ==
  IF S = {} THEN { << >> }
  ELSE UNION { { << t >> \o o : o \in Orders(S \ {t}) } : t \in S }

RECURSIVE Blocks(_)
Blocks(o) == IF o = << >> THEN << >> ELSE StoredPart(Head(o)) \o Blocks(Tail(o))

\* C33: before any sort a.entries is a concatenation of whole blocks, one per
\* Add / AddBatch call that has taken the lock, each block holding the records
\* of that call in batch order; the call still in progress owns the last
\* block, so no record of another call lies between two records of a batch
C33_BatchIsContiguous ==
  \E o \in Orders(Entered) :
    /\ entries = Blocks(o)
    /\ \A k \in 1..Len(o) : k < Len(o) => frame[o[k]].pc = "ret"

\* one caller is in the middle of its batch while another waits at the lock
C33_Witness ==
  \E t, c \in Callers :
    /\ frame[t].op = "AddBatch"
    /\ frame[t].pc = "load"
    /\ frame[t].i = 2
    /\ frame[c].pc = "lock"
    /\ Len(frame[c].batch) > 0

\* ---------------------------------------------------------------- C34
\* C34: after every read step the stored offset is the position up to which
\* the file handle has consumed the file, also when the file grows between
\* the size query and the scan
C34_OffsetIsConsumedPosition ==
  [][ReadStep => watch'.lastOffset = watch'.pos]_vars

\* ------------------------------------------------ SpecFrag: partial writes
\* The process that writes the watched file may write a line in two pieces,
\* the second one ending with the newline.  The line is free text without a
\* timestamp or a level word, so that every piece of it is such text as well.
PlainLine == [kind |-> "other", raw |-> << "o", "k" >>]

\* the bytes after the last newline of the file: a line not yet completed
PendingBytes ==
  IF wfile.bytes = << >> THEN << >>
  ELSE IF wfile.bytes[Len(wfile.bytes)] = "\n" THEN << >>
  ELSE LET pieces == SplitLines(wfile.bytes) IN pieces[Len(pieces)]

\* the writer appends a whole line with one write
WriteLine ==
  /\ PendingBytes = << >>
  /\ AppendLine(PlainLine)

\* the writer appends the first k bytes of a line
AppendFragment(k) ==
  /\ wfile.written < MaxLines
  /\ PendingBytes = << >>
  /\ wfile' = [wfile EXCEPT !.bytes = @ \o SubSeq(PlainLine.raw, 1, k)]
  /\ watch' = [watch EXCEPT !.events = IF Registered THEN @ \cup { "write" } ELSE @]
  /\ UNCHANGED << aggVars, dirVars, calc, sink >>

\* the writer appends the remainder of the line and its newline
AppendRest ==
  /\ PendingBytes /= << >>
  /\ wfile' = [wfile EXCEPT
                 !.bytes = @ \o SubSeq(LineBytes(PlainLine), Len(PendingBytes) + 1,
                                       Len(LineBytes(PlainLine))),
                 !.lines = Append(@, PlainLine),
                 !.written = @ + 1]
  /\ watch' = [watch EXCEPT !.events = IF Registered THEN @ \cup { "write" } ELSE @]
  /\ UNCHANGED << aggVars, dirVars, calc, sink >>

InitFrag ==
  /\ InitAggregator
  /\ InitDirVars(InertRun, "idle")
  /\ calc = NoCalc
  /\ \E ls \in SeqsUpTo({ PlainLine }, MaxInitial) :
       wfile = [bytes |-> Content(ls), lines |-> ls, written |-> Len(ls),
                shrunk |-> FALSE]
  /\ \E c \in { k \in WatchConfigs : k.MinLevel = DEBUG /\ k.Pattern = << >> } :
       watch = [pc |-> "open", cfg |-> c, lastOffset |-> 0, pos |-> 0, size |-> 0,
                events |-> {}, tick |-> FALSE, fserr |-> FALSE,
                cancelled |-> FALSE, err |-> "none",
                opened |-> << >>, hasRead |-> FALSE, reset |-> FALSE]
  /\ sink = << >>

NextFrag ==
  \/ WatchOpen
  \/ WatchStart
  \/ OnEvent
  \/ OnTick
  \/ OnCancel
  \/ ReadStat
  \/ ReadScan
  \/ Cancel
  \/ WriteLine
  \/ \E k \in 1..Len(PlainLine.raw) : AppendFragment(k)
  \/ AppendRest
  \/ Tick

SpecFrag == InitFrag /\ [][NextFrag]_vars

\* ---------------------------------------------------------------- C35
\* the text of the lines ls, as the scanner hands complete lines over
RECURSIVE Raws(_)
Raws(ls) == IF ls = << >> THEN << >> ELSE << Head(ls).raw >> \o Raws(Tail(ls))

\* the complete lines the watcher is to display: those appended since Watch
\* started, and with ShowAll those the file held before as well
LinesToShow == IF watch.cfg.ShowAll THEN wfile.lines ELSE AppendedLines

\* C35: the watcher emits a record only for a complete, newline-terminated
\* line: what is displayed is a prefix of the records of the complete lines,
\* so a line written by two appends with a read in between is displayed
\* once, as a whole, and not as two records of its pieces
C35_OnlyCompleteLinesEmitted ==
  Watching => IsPrefix(sink, ScanAll(watch.cfg, Raws(LinesToShow)))

\* -------------------------------------------- SpecRotate: log rotation
\* As SpecWatch, with the truncation falling between two reads: the file is
\* truncated while Watch waits in its select, and is written again afterwards.
Rotate ==
  /\ watch.pc = "loop"
  /\ Truncate

NextRotate ==
  \/ WatchOpen
  \/ WatchStart
  \/ OnEvent
  \/ OnTick
  \/ OnCancel
  \/ ReadStat
  \/ ReadScan
  \/ Cancel
  \/ \E l \in WatchLines : AppendLine(l)
  \/ Rotate
  \/ Tick

SpecRotate == InitWatch /\ [][NextRotate]_vars

\* ---------------------------------------------------------------- C36
IsSuffix(a, b) == Len(a) <= Len(b) /\ SubSeq(b, Len(b) - Len(a) + 1, Len(b)) = a

\* C36: a truncation between two reads is detected by the next read, also
\* when the file has grown again to the stored offset or beyond: that read
\* restarts at byte 0 and displays the new content from its beginning, so
\* after every read that follows the truncation the display ends with the
\* records of all lines the file now holds
C36_TruncationAlwaysDetected ==
  [][(ReadStep /\ wfile.shrunk) => IsSuffix(Shown(watch.cfg, wfile.lines), sink')]_vars

\* ---------------------------------------------------------------- C37
\* C37: under fair scheduling, once cancellation is signalled Watch returns
\* in the end: the loop does not go on servicing notifications and ticks
\* for ever
C37_CancelledWatchReturns == watch.cancelled ~> (watch.pc = "returned")

\* Watch returned on cancellation while a tick and a notification were ready
C37_Witness ==
  /\ watch.cancelled
  /\ watch.pc = "returned"
  /\ watch.err = "nil"
  /\ watch.hasRead
  /\ watch.tick
  /\ watch.events /= {}

\* ------------------------------------------- SpecStats: WatchWithStats
\* WatchWithStats starts a goroutine that takes entries from entryChan into a
\* Statistics value and prints it at every tick, and then reads the file
\* from its beginning, handing every parsed entry to that goroutine.
StatFileLines == { LoopLine, Malformed }

\* the tokens the scanner returns for the file, and the one at the position
\* of the reading loop
Tokens == SplitLines(wfile.bytes)
CurToken == Tokens[watch.line]

\* parser.DetectParser(line).Parse(line, w.config.FilePath)
ParseToken ==
  CHOOSE r \in { Parse(l, watch.cfg.FilePath) : l \in { Decode(t) : t \in { CurToken } } } : TRUE

\* os.Open(w.config.FilePath) after the goroutine was started
StatsOpen ==
  /\ watch.pc = "sopen"
  /\ watch' = IF watch.cfg.Readable THEN [watch EXCEPT !.pc = "sscan", !.line = 1]
              ELSE [watch EXCEPT !.pc = "returned", !.err = "open"]
  /\ UNCHANGED << aggVars, dirVars, calc, wfile, sink >>

\* for scanner.Scan(): the next line, or return scanner.Err() at the end
StatsScan ==
  /\ watch.pc = "sscan"
  /\ \E n \in { Len(Tokens) } :
       watch' = IF watch.line > n THEN [watch EXCEPT !.pc = "returned", !.err = "nil"]
                ELSE [watch EXCEPT !.pc = "sselect"]
  /\ UNCHANGED << aggVars, dirVars, calc, wfile, sink >>

\* select { case <-ctx.Done(): return nil; default: ... }: the default branch
\* runs only when ctx.Done() is not ready; it parses the line and goes on to
\* the send when Parse returned no error
StatsSelect ==
  /\ watch.pc = "sselect"
  /\ \E r \in { ParseToken } :
       watch' = IF Done(watch) THEN [watch EXCEPT !.pc = "returned", !.err = "nil"]
                ELSE IF r.err = "nil" THEN [watch EXCEPT !.pc = "ssend"]
                ELSE [watch EXCEPT !.pc = "sscan", !.line = @ + 1]
  /\ UNCHANGED << aggVars, dirVars, calc, wfile, sink >>

\* a send on entryChan can proceed: a slot of its buffer is free
SendReady(w) == Len(w.chan) < EntryChanCap

\* entryChan <- entry; w.displayEntry(entry)
StatsSend ==
  /\ watch.pc = "ssend"
  /\ SendReady(watch)
  /\ \E r \in { ParseToken } :
       /\ watch' = [watch EXCEPT !.pc = "sscan", !.line = @ + 1,
                                 !.chan = Append(@, r.entry)]
       /\ sink' = Append(sink, displayEntry(r.entry))
  /\ UNCHANGED << aggVars, dirVars, calc, wfile >>

\* the goroutine: case entry := <-entryChan: stats.AddEntry(entry)
StatsRecv ==
  /\ watch.spc = "run"
  /\ watch.chan /= << >>
  /\ stats' = AddEntry(stats, Head(watch.chan))
  /\ watch' = [watch EXCEPT !.chan = Tail(@)]
  /\ UNCHANGED << entries, a_mu, s_mu, frame, dirVars, calc, wfile, sink >>

\* the goroutine: case <-ticker.C: w.printStats(stats)
StatsPrint ==
  /\ watch.spc = "run"
  /\ watch.tick
  /\ watch' = [watch EXCEPT !.tick = FALSE,
                            !.printed = << stats.TotalEntries, stats.LevelCounts[ERROR],
                                           stats.LevelCounts[WARN], stats.LevelCounts[INFO] >>]
  /\ UNCHANGED << aggVars, dirVars, calc, wfile, sink >>

\* the goroutine: case <-ctx.Done(): return
StatsExit ==
  /\ watch.spc = "run"
  /\ Done(watch)
  /\ watch' = [watch EXCEPT !.spc = "exited"]
  /\ UNCHANGED << aggVars, dirVars, calc, wfile, sink >>

\* statsInterval passes: a tick waits in the goroutine's ticker.C
StatsTick ==
  /\ watch.spc = "run"
  /\ ~watch.tick
  /\ watch' = [watch EXCEPT !.tick = TRUE]
  /\ UNCHANGED << aggVars, dirVars, calc, wfile, sink >>

\* WatchWithStats is entered: stats := models.NewStatistics(), the channel
\* is empty and the goroutine is started
InitStats ==
  /\ InitAggregator
  /\ InitDirVars(InertRun, "idle")
  /\ calc = NoCalc
  /\ \E ls \in SeqsUpTo(StatFileLines, MaxStatLines) :
       wfile = [bytes |-> Content(ls), lines |-> ls, written |-> Len(ls),
                shrunk |-> FALSE]
  /\ \E c \in { k \in WatchConfigs : k.MinLevel = DEBUG /\ k.Pattern = << >> /\ ~k.ShowAll } :
       watch = [pc |-> "sopen", cfg |-> c, line |-> 0, chan |-> << >>, spc |-> "run",
                tick |-> FALSE, printed |-> << >>, cancelled |-> FALSE, err |-> "none"]
  /\ sink = << >>

NextStats ==
  \/ StatsOpen
  \/ StatsScan
  \/ StatsSelect
  \/ StatsSend
  \/ StatsRecv
  \/ StatsPrint
  \/ StatsExit
  \/ StatsTick
  \/ Cancel

SpecStats == InitStats /\ [][NextStats]_vars

\* both goroutines are scheduled, and a select of the statistics goroutine
\* picks among its ready cases pseudo-randomly, so a case that stays ready
\* is taken in the end
SpecStatsFair ==
  /\ SpecStats
  /\ WF_vars(StatsOpen \/ StatsScan \/ StatsSelect \/ StatsSend)
  /\ SF_vars(StatsRecv)
  /\ SF_vars(StatsExit)

\* ---------------------------------------------------------------- C38
\* the reading loop waits in its send with the channel full and nobody left
\* to receive
SendStuck == watch.pc = "ssend" /\ ~SendReady(watch) /\ watch.spc = "exited"

\* a run that is never cancelled reads the file to its end and returns
C38_ReturnsAtEndOfFile == <>(watch.pc = "returned" \/ watch.cancelled)

\* C38: WatchWithStats always terminates, on cancellation or at the end of
\* the file: its reading loop never waits for ever to hand an entry to the
\* statistics goroutine, also when the entry channel is full and that
\* goroutine has already returned because of the cancellation
C38_WatchWithStatsReturns == <>(watch.pc = "returned")

\* ---------------------------------------------------------------- C39
\* the errors are collected and the records are still in the order stored
JoinedUnsorted == main.pc \in { "settime", "sort" }

ErrorReportedFor(f) == \E i \in 1..Len(main.errors) : main.errors[i].file = f

\* C39: a file whose scan stops at a line over the scanner's maximum still
\* contributes the records accepted before that line, in file order; it is
\* not counted in FilesProcessed / BytesProcessed and its AnalyzeFile returns
\* an error.  A file that cannot be opened contributes no record and no
\* counter update, and its AnalyzeFile returns an error as well.
C39_ReadErrorKeepsEarlierRecords ==
  /\ stats.FilesProcessed = Cardinality(CompletedFiles)
  /\ stats.BytesProcessed = SizeSum(CompletedFiles)
  /\ \A k \in 1..Len(main.files) :
       LET f == main.files[k]
       IN ~Readable(f) =>
            /\ f \notin CompletedFiles
            /\ OpenFails(f) => StoredFrom(f) = {}
            /\ \A w \in Workers :
                 (worker[w].pc = "senderr" /\ worker[w].file = f /\ ~OpenFails(f)) =>
                   StoredSeq(f) = AcceptedUpTo(f, ScanLimit(f))
            /\ JoinedUnsorted =>
                 /\ audit.outcome[f] = "err"
                 /\ ErrorReportedFor(f)
                 /\ StoredSeq(f) = (IF OpenFails(f) THEN << >>
                                    ELSE AcceptedUpTo(f, ScanLimit(f)))

\* a run over a file that cannot be opened and a file with an over-long line
\* after an accepted one has been joined: the accepted record is stored
C39_Witness ==
  /\ JoinedUnsorted
  /\ ErrorReportedFor("b.log")
  /\ ErrorReportedFor("d.log")
  /\ StoredFrom("d.log") /= {}
  /\ stats.FilesProcessed = 0

\* ------------------------------------- SpecLevel: the level of a JSON line
\* The "level" field of a structured line, as written in the file (absent:
\* the empty text), and the minimum level the record is tested against by
\* the analyzer, by the watcher and by MinLevelFilter.
LevelFieldTexts ==
  { << >>, << "t", "r", "a", "c", "e" >>, << "e", "r", "r" >>, << "n", "o", "t", "i", "c", "e" >>,
    << "e", "r", "r", "o", "r" >>, << "W", "a", "r", "n" >>, << "w", "a", "r", "n", "i", "n", "g" >>,
    << "F", "A", "T", "A", "L" >>, << "i", "n", "f", "o" >>, << "D", "e", "b", "u", "g" >> }

\* JSONLogParser.Parse: Level is models.ParseLogLevel(strings.ToUpper(jsonEntry.Level))
JSONLevelParse ==
  /\ calc.op = "level"
  /\ calc.parsed = << >>
  /\ calc' = [calc EXCEPT !.parsed =
                 << LogEntry(1, ParseLogLevel(ToUpper(calc.text)), << "o" >>, "w.log",
                             << "{" >> \o calc.text \o << "o", "}" >>) >>]
  /\ UNCHANGED << aggVars, dirVars, wfile, watch, sink >>

\* Analyzer.shouldInclude with Config.Level = min and no other filter
AnalyzerDecides ==
  /\ calc.op = "level"
  /\ calc.parsed /= << >>
  /\ calc.analyzer = "none"
  /\ calc' = [calc EXCEPT !.analyzer =
                 Verdict(shouldInclude(Config(0, Invocation("analyze", calc.min, << >>, 0, 0)),
                                       calc.parsed[1]))]
  /\ UNCHANGED << aggVars, dirVars, wfile, watch, sink >>

\* Watcher.processLine with Config.MinLevel = min and no pattern
WatcherLevelDecides ==
  /\ calc.op = "level"
  /\ calc.parsed /= << >>
  /\ calc.watcher = "none"
  /\ calc' = [calc EXCEPT !.watcher =
                 Verdict(Accepts([FilePath |-> "w.log", ShowAll |-> FALSE, MinLevel |-> calc.min,
                                  Pattern |-> << >>, Readable |-> TRUE], calc.parsed[1]))]
  /\ UNCHANGED << aggVars, dirVars, wfile, watch, sink >>

\* MinLevelFilter(min)(entry)
MinLevelDecides ==
  /\ calc.op = "level"
  /\ calc.parsed /= << >>
  /\ calc.filter = "none"
  /\ calc' = [calc EXCEPT !.filter = Verdict(MinLevelFilter(calc.min, calc.parsed[1]))]
  /\ UNCHANGED << aggVars, dirVars, wfile, watch, sink >>

InitLevel ==
  /\ InitAggregator
  /\ InitDirVars(InertRun, "idle")
  /\ \E t \in LevelFieldTexts, min \in Levels :
       calc = [op |-> "level", text |-> t, min |-> min, parsed |-> << >>,
               analyzer |-> "none", watcher |-> "none", filter |-> "none"]
  /\ wfile = << >>
  /\ watch = NoWatch
  /\ sink = << >>

NextLevel == JSONLevelParse \/ AnalyzerDecides \/ WatcherLevelDecides \/ MinLevelDecides

SpecLevel == InitLevel /\ [][NextLevel]_vars

\* ---------------------------------------------------------------- C40
\* the level field is absent or is not the name of a level, in any case
NoLevelName == \A i \in 1..Len(LevelWords) : ToUpper(calc.text) /= LevelWords[i]

\* C40: a structured line whose level text is missing or not recognised
\* parses to a record of level UNKNOWN; UNKNOWN ranks above FATAL, and the
\* record passes the minimum-level test of the analyzer, of the watcher and
\* of MinLevelFilter for every minimum level
C40_UnknownPassesEveryMinimum ==
  /\ UNKNOWN > FATAL
  /\ (calc.parsed /= << >> /\ NoLevelName) =>
       /\ calc.parsed[1].level = UNKNOWN
       /\ calc.analyzer \in { "none", "yes" }
       /\ calc.watcher \in { "none", "yes" }
       /\ calc.filter \in { "none", "yes" }
  /\ (calc.parsed /= << >> /\ ~NoLevelName) => calc.parsed[1].level <= FATAL

\* a line without level text was tested against FATAL by all three
C40_Witness ==
  /\ calc.parsed /= << >>
  /\ calc.text = << >>
  /\ calc.min = FATAL
  /\ calc.analyzer = "yes"
  /\ calc.watcher = "yes"
  /\ calc.filter = "yes"

====
